---- MODULE Spec2Model ----
(***************************************************************************)
(* State-machine model of the NPC decision core of wasted-potential-game:  *)
(* NPCMemory (src/src/NPCMemory.js), NPCAgent (src/src/NPCAgent.js) and    *)
(* the parts of NPC, Game and ProjectileSystem that feed or are driven by  *)
(* them.  Timestamps, log output, rendering and the timer that hides a     *)
(* speech bubble are left out: currentSpeech is the last message spoken.   *)
(* Everything else that the modelled methods read or write is state.       *)
(***************************************************************************)
EXTENDS Integers, Sequences, FiniteSets, TLC

VARIABLES
    memory,          \* memory[n]: NPCMemory.memory of NPC n
    localStorage,    \* localStorage[n]: value under key npc_memory_<n>, or Absent
    sumDeltas,       \* ghost: sum of reputationChange of every interaction recorded for n
    savedDeltas,     \* ghost: what sumDeltas[n] was when localStorage[n] was last written
    isProcessing,    \* isProcessing[n]: NPCAgent.isProcessing
    pc,              \* pc[n]: where the accepted processEvent call of n is suspended
    event,           \* event[n]: (eventType, eventData) of the accepted call
    response,        \* response[n]: the response executeResponse is working through
    rocks,           \* rocks[n]: NPC.inventory.rocks
    targetPosition,  \* targetPosition[n]: NPC.targetPosition
    currentSpeech,   \* currentSpeech[n]: NPC.currentSpeech
    projectiles,     \* ProjectileSystem.projectiles, each entry its thrower
    rockCollected,   \* rockCollected[r]: Rock.isCollected
    lampOn,          \* lampOn[l]: Lamp state flipped by toggle()
    timers,          \* pending setTimeout callbacks of the two-phase tools
    playerRocks,     \* Inventory.items.rocks of the player
    active,          \* ghost: active[n] counts the processEvent calls of n that are
                     \* past the guard and have not reached the finally block
    trace,           \* ghost: trace[n] lists, per tool call executed in the current
                     \* response of n, the call's name and its effects on the world;
                     \* where the store is driven on its own (LogSpec), every
                     \* append made to a log of n, with the log's name
    lastOp,          \* ghost: the handler or method the last step ran
    steps,           \* ghost: number of freely chosen stimuli delivered so far
    scripted         \* ghost: number of stimuli of the fixed opening sequence delivered

vars == <<memory, localStorage, sumDeltas, savedDeltas, isProcessing, pc, event, response,
          rocks, targetPosition, currentSpeech, projectiles, rockCollected,
          lampOn, timers, playerRocks, active, trace, lastOp, steps, scripted>>

----------------------------------------------------------------------------
(* Bounds of the model *)

MaxSteps == 2
MaxFairSteps == 1
MaxMemOps == 3
MaxPrior == 50
MaxCalls == 3

(* Program constants *)

ConversationCap == 20
ActionCap == 30
InteractionCap == 50
HitDelta == 10
PositiveDelta == 2
NegativeDelta == 5
NeutralDelta == 1

NPCs == {1, 2}
Null == "null"
Undefined == "undefined"
Absent == [present |-> FALSE]

Labels == {"friendly", "positive", "hostile", "threatening", "negative", "neutral"}
OtherLabel == "sarcastic"

Personality(n) == IF n = 1 THEN "personality1" ELSE "personality2"

----------------------------------------------------------------------------
(* NPCMemory *)

\* faulty variant: the cut keeps the oldest entries
SliceLast_KeepsOldest(s, k) == IF Len(s) > k THEN SubSeq(s, 1, k) ELSE s

\* Array.prototype.slice(-k)
SliceLast(s, k) == IF Len(s) > k THEN SubSeq(s, Len(s) - k + 1, Len(s)) ELSE s

EmptyMemory(n, personality) ==
    [npcId |-> n,
     personality |-> personality,
     conversationHistory |-> <<>>,
     actionMemory |-> <<>>,
     playerReputation |-> 0,
     playerInteractions |-> <<>>]

\* JSON.stringify of one log entry: a key whose value is undefined is left out
\* of the text.  The values that can be undefined are the label copied into
\* impact and the thrower id.
UndefinableKeys == {"impact", "throwerId", "details"}
JSONEntry(e) ==
    [k \in {j \in DOMAIN e : ~(j \in UndefinableKeys /\ e[j] = Undefined)} |-> e[k]]
JSONArray(log) == [i \in DOMAIN log |-> JSONEntry(log[i])]

\* JSON.stringify(this.memory): the text is kept as the document it spells.
\* JSON.parse gives back the object the document denotes; the keys stringify
\* left out are missing from it.
JSONStringify(mem) ==
    [present |-> TRUE,
     text |-> [mem EXCEPT !.conversationHistory = JSONArray(@),
                          !.actionMemory = JSONArray(@),
                          !.playerInteractions = JSONArray(@)]]
JSONParse(item) == item.text

\* faulty variant: only the last 10 entries of each log are written
SaveMemory_SavesRecent(s) ==
    IF s.writable
    THEN [s EXCEPT !.ls = JSONStringify(
              [s.mem EXCEPT !.conversationHistory = SliceLast(@, 10),
                            !.actionMemory = SliceLast(@, 10),
                            !.playerInteractions = SliceLast(@, 10)])]
    ELSE s

\* faulty variant: after a failed write the reputation goes back to the persisted one
SaveMemory_RevertsOnFailure(s) ==
    IF s.writable THEN [s EXCEPT !.ls = JSONStringify(s.mem)]
    ELSE [s EXCEPT !.mem.playerReputation =
              IF s.ls.present /\ "playerReputation" \in DOMAIN JSONParse(s.ls)
              THEN JSONParse(s.ls).playerReputation ELSE 0]

\* A store is NPCMemory.memory, the localStorage slot of its key, and whether
\* localStorage.setItem succeeds (it throws when the quota is exceeded).
SaveMemory(s) == IF s.writable THEN [s EXCEPT !.ls = JSONStringify(s.mem)] ELSE s

\* faulty variant: a log that is too long loses its oldest entry, not all that exceed the cap
AddConversation_DropsOne(s, role, content, sentiment) ==
    IF role = "user"
    THEN LET pushed == Append(s.mem.conversationHistory,
                              [role |-> role, content |-> content, sentiment |-> sentiment])
             kept == IF Len(pushed) > ConversationCap THEN Tail(pushed) ELSE pushed
         IN SaveMemory([s EXCEPT !.mem.conversationHistory = kept])
    ELSE s

AddConversation(s, role, content, sentiment) ==
    IF role = "user"
    THEN LET pushed == Append(s.mem.conversationHistory,
                              [role |-> role, content |-> content, sentiment |-> sentiment])
             kept == IF Len(pushed) > ConversationCap
                     THEN SliceLast(pushed, ConversationCap) ELSE pushed
         IN SaveMemory([s EXCEPT !.mem.conversationHistory = kept])
    ELSE s

\* faulty variant: the appended action is not written to localStorage
AddAction_NoSave(s, action, details, isPlayerAction) ==
    IF isPlayerAction
    THEN LET pushed == Append(s.mem.actionMemory, [action |-> action, details |-> details])
             kept == IF Len(pushed) > ActionCap
                     THEN SliceLast(pushed, ActionCap) ELSE pushed
         IN [s EXCEPT !.mem.actionMemory = kept]
    ELSE s

AddAction(s, action, details, isPlayerAction) ==
    IF isPlayerAction
    THEN LET pushed == Append(s.mem.actionMemory, [action |-> action, details |-> details])
             kept == IF Len(pushed) > ActionCap
                     THEN SliceLast(pushed, ActionCap) ELSE pushed
         IN SaveMemory([s EXCEPT !.mem.actionMemory = kept])
    ELSE s

\* faulty variant: the interaction log is not cut back after the push
RecordPlayerHit_NoTrim(s, throwerId) ==
    LET pushed == Append(s.mem.playerInteractions,
                         [type |-> "hit", impact |-> "hostile",
                          reputationChange |-> -HitDelta, throwerId |-> throwerId])
        s1 == [s EXCEPT !.mem.playerReputation = @ - HitDelta,
                        !.mem.playerInteractions = pushed]
    IN SaveMemory(AddAction(s1, "player_hit", throwerId, TRUE))

\* faulty variant: the delta written into the interaction is not the one applied
RecordPlayerHit_Mismatch(s, throwerId) ==
    LET pushed == Append(s.mem.playerInteractions,
                         [type |-> "hit", impact |-> "hostile",
                          reputationChange |-> -NegativeDelta, throwerId |-> throwerId])
        kept == IF Len(pushed) > InteractionCap
                THEN SliceLast(pushed, InteractionCap) ELSE pushed
        s1 == [s EXCEPT !.mem.playerReputation = @ - HitDelta,
                        !.mem.playerInteractions = kept]
    IN SaveMemory(AddAction(s1, "player_hit", throwerId, TRUE))

\* faulty variant: the delta of the entry that falls out of the log is taken back
RecordPlayerHit_ForgetsEvicted(s, throwerId) ==
    LET pushed == Append(s.mem.playerInteractions,
                         [type |-> "hit", impact |-> "hostile",
                          reputationChange |-> -HitDelta, throwerId |-> throwerId])
        kept == IF Len(pushed) > InteractionCap
                THEN SliceLast(pushed, InteractionCap) ELSE pushed
        lost == IF Len(pushed) > InteractionCap THEN pushed[1].reputationChange ELSE 0
        s1 == [s EXCEPT !.mem.playerReputation = @ - HitDelta - lost,
                        !.mem.playerInteractions = kept]
    IN SaveMemory(AddAction(s1, "player_hit", throwerId, TRUE))

RecordPlayerHit(s, throwerId) ==
    LET pushed == Append(s.mem.playerInteractions,
                         [type |-> "hit", impact |-> "hostile",
                          reputationChange |-> -HitDelta, throwerId |-> throwerId])
        kept == IF Len(pushed) > InteractionCap
                THEN SliceLast(pushed, InteractionCap) ELSE pushed
        s1 == [s EXCEPT !.mem.playerReputation = @ - HitDelta,
                        !.mem.playerInteractions = kept]
    IN SaveMemory(AddAction(s1, "player_hit", throwerId, TRUE))

\* faulty variant: threatening is not among the labels that cost reputation
ReputationChange_NoThreatening(label) ==
    IF label \in {"friendly", "positive"} THEN PositiveDelta
    ELSE IF label \in {"hostile", "negative"} THEN -NegativeDelta
    ELSE IF label = "neutral" THEN NeutralDelta
    ELSE 0

\* faulty variant: the neutral branch is missing
ReputationChange_NoNeutral(label) ==
    IF label \in {"friendly", "positive"} THEN PositiveDelta
    ELSE IF label \in {"hostile", "threatening", "negative"} THEN -NegativeDelta
    ELSE 0

ReputationChange(label) ==
    IF label \in {"friendly", "positive"} THEN PositiveDelta
    ELSE IF label \in {"hostile", "threatening", "negative"} THEN -NegativeDelta
    ELSE IF label = "neutral" THEN NeutralDelta
    ELSE 0

\* null where a sentiment object is expected
NullSentiment == [null |-> TRUE]

\* what JSON.parse gives for a reply such as {"confidence": "low"}
NoLabelSentiment == [confidence |-> "low"]

\* sentiment.label
Label(sentiment) == IF "label" \in DOMAIN sentiment THEN sentiment.label ELSE Undefined

\* faulty variant: the message is not appended to the conversation log
RecordPlayerMessage_NoConversation(s, message, sentiment) ==
    LET change == ReputationChange(Label(sentiment))
        pushed == Append(s.mem.playerInteractions,
                         [type |-> "message", message |-> message, sentiment |-> sentiment,
                          impact |-> Label(sentiment), reputationChange |-> change])
        kept == IF Len(pushed) > InteractionCap
                THEN SliceLast(pushed, InteractionCap) ELSE pushed
        s1 == [s EXCEPT !.mem.playerReputation = @ + change,
                        !.mem.playerInteractions = kept]
    IN SaveMemory(s1)

RecordPlayerMessage(s, message, sentiment) ==
    LET change == ReputationChange(Label(sentiment))
        pushed == Append(s.mem.playerInteractions,
                         [type |-> "message", message |-> message, sentiment |-> sentiment,
                          impact |-> Label(sentiment), reputationChange |-> change])
        kept == IF Len(pushed) > InteractionCap
                THEN SliceLast(pushed, InteractionCap) ELSE pushed
        s1 == [s EXCEPT !.mem.playerReputation = @ + change,
                        !.mem.playerInteractions = kept]
    IN SaveMemory(AddConversation(s1, "user", message, sentiment))

SetPersonality(s, personality) ==
    SaveMemory([s EXCEPT !.mem.personality = personality])

\* obj.k, or v where the object has no key k
WithDefault(obj, k, v) ==
    IF k \in DOMAIN obj THEN obj
    ELSE [j \in DOMAIN obj \cup {k} |-> IF j = k THEN v ELSE obj[j]]

\* a stored text that JSON.parse rejects
InvalidJSON == [present |-> TRUE, invalid |-> TRUE]
JSONParseThrows(item) == "text" \notin DOMAIN item

\* the value of the JSON text null, and this.memory after it was assigned
NullMemory == [null |-> TRUE]
JSONNull == [present |-> TRUE, text |-> NullMemory]

\* loadMemory: an exception of JSON.parse leaves this.memory as it is; one
\* raised after the assignment (a property read on null) leaves the parsed
\* value in this.memory.  Both are caught and logged.
LoadMemory(s) ==
    IF ~s.ls.present THEN s
    ELSE IF JSONParseThrows(s.ls) THEN s
    ELSE IF JSONParse(s.ls) = NullMemory THEN [s EXCEPT !.mem = NullMemory]
    ELSE [s EXCEPT !.mem = WithDefault(WithDefault(JSONParse(s.ls), "playerReputation", 0),
                                       "playerInteractions", <<>>)]

\* faulty variant: the personality handed to the constructor replaces the saved one
NewNPCMemory_OverwritesPersonality(n, personality, ls) ==
    LET loaded == LoadMemory([mem |-> EmptyMemory(n, personality), ls |-> ls,
                              writable |-> TRUE])
    IN IF personality # Null
       THEN SetPersonality(loaded, personality) ELSE loaded

\* new NPCMemory(npcId, personality) against the current localStorage slot
NewNPCMemory(n, personality, ls) ==
    LET loaded == LoadMemory([mem |-> EmptyMemory(n, personality), ls |-> ls,
                              writable |-> TRUE])
    IN IF loaded.mem = NullMemory THEN loaded
       ELSE IF personality # Null /\ loaded.mem.personality = Null
       THEN SetPersonality(loaded, personality) ELSE loaded

\* the constructor ends in an exception: with a personality given, line 25
\* reads this.memory.personality, outside any try block
NewNPCMemoryThrows(n, personality, ls) ==
    /\ personality # Null
    /\ LoadMemory([mem |-> EmptyMemory(n, personality), ls |-> ls,
                   writable |-> TRUE]).mem = NullMemory

GetContext(s) ==
    [personality |-> s.mem.personality,
     playerReputation |-> s.mem.playerReputation,
     recentPlayerInteractions |-> SliceLast(s.mem.playerInteractions, 10),
     recentConversations |-> SliceLast(s.mem.conversationHistory, 10),
     recentActions |-> SliceLast(s.mem.actionMemory, 10)]

Store(n) == [mem |-> memory[n], ls |-> localStorage[n], writable |-> TRUE]

----------------------------------------------------------------------------------------------------------------------------------------
(* JavaScript values that reach the tools from the reasoning service *)

Num(v) == [t |-> "num", n |-> v]
Str(v) == [t |-> "str", s |-> v]
\* a string held as a text (a sequence of tokens, " " is white space)
Text(v) == [t |-> "text", w |-> v]
Undef == [t |-> "undefined"]

Arg(args, k) == IF k \in DOMAIN args THEN args[k] ELSE Undef
Falsy(v) ==
    \/ v.t = "undefined"
    \/ v.t = "num" /\ v.n = 0
    \/ v.t = "str" /\ v.s = ""
    \/ v.t = "text" /\ v.w = <<>>
\* v || d
OrElse(v, d) == IF Falsy(v) THEN d ELSE v

\* parseInt(targetId): the NPC id a string or number denotes, 0 for NaN
ParseInt(v) ==
    IF v.t = "num" THEN v.n
    ELSE IF v.t = "str" /\ v.s = "1" THEN 1
    ELSE IF v.t = "str" /\ v.s = "2" THEN 2
    ELSE IF v.t = "str" /\ v.s = "7" THEN 7
    ELSE 0

Space == " "
RECURSIVE TrimLeft(_)
TrimLeft(t) == IF t # <<>> /\ Head(t) = Space THEN TrimLeft(Tail(t)) ELSE t
RECURSIVE TrimRight(_)
TrimRight(t) ==
    IF t # <<>> /\ t[Len(t)] = Space THEN TrimRight(SubSeq(t, 1, Len(t) - 1)) ELSE t
Trim(t) == TrimRight(TrimLeft(t))

----------------------------------------------------------------------------
(* NPC: inventory, movement target, speech *)

\* The world as one tool call sees it, this.memory included; effects lists what
\* the call did to it, threw tells that the call ended in an exception.
World(n) ==
    [rocks |-> rocks[n], target |-> targetPosition[n], speech |-> currentSpeech[n],
     projectiles |-> projectiles, rockCollected |-> rockCollected, lampOn |-> lampOn,
     timers |-> timers, store |-> Store(n), effects |-> <<>>, threw |-> FALSE]

Throw(w) == [w EXCEPT !.threw = TRUE]

AddRock(w, count) == [w EXCEPT !.rocks = @ + count]

\* faulty variant: the count is lowered without being looked at
RemoveRock_Unchecked(w, count) == [w EXCEPT !.rocks = @ - count]

\* removeRock leaves the count alone and returns false when it is too small
RemoveRock(w, count) == IF w.rocks >= count THEN [w EXCEPT !.rocks = @ - count] ELSE w
RemoveRockOk(w, count) == w.rocks >= count

GetRockCount(w) == w.rocks

\* NPC.currentSpeech: null until the NPC speaks, then the message
NoSpeech == [none |-> TRUE]
Spoken(message) == [text |-> message]

NPCSpeak(w, message) ==
    [w EXCEPT !.speech = Spoken(message),
              !.effects = Append(@, [e |-> "speak", message |-> message])]

\* position is [x, z], or [beside] for a point 1.5 to 2.0 away from an object
SetTargetPosition(w, position) ==
    [w EXCEPT !.target = position,
              !.effects = Append(@, [e |-> "setTargetPosition", position |-> position])]

----------------------------------------------------------------------------
(* Game and ProjectileSystem *)

PlayerThrower == [id |-> "player", type |-> "player"]
NPCThrower(n) == [id |-> ToString(n), type |-> "npc"]

ProjectileSystemThrowRock(w, thrower) ==
    [w EXCEPT !.projectiles = Append(@, thrower),
              !.effects = Append(@, [e |-> "throwRock", thrower |-> thrower])]

\* Game.throwRockAt(start, direction, speed, thrower, checkInventory = false)
ThrowRockAt(w, thrower) == ProjectileSystemThrowRock(w, thrower)
\* its return value: false only when checkInventory is set and the player has no rock
ThrowRockAtOk(checkInventory, inventoryRocks) == checkInventory => inventoryRocks >= 1

RockCollect(w, r) ==
    [w EXCEPT !.rockCollected[r] = TRUE,
              !.effects = Append(@, [e |-> "collect", rock |-> r])]
\* faulty variant: collect succeeds on a rock that is gone
RockCollectOk_Again(w, r) == TRUE

RockCollectOk(w, r) == ~w.rockCollected[r]

LampToggle(w, l) ==
    [w EXCEPT !.lampOn[l] = ~@,
              !.effects = Append(@, [e |-> "toggle", lamp |-> l])]

SetTimeout(w, callback) ==
    [w EXCEPT !.timers = Append(@, callback),
              !.effects = Append(@, [e |-> "setTimeout", callback |-> callback])]

----------------------------------------------------------------------------
(* NPCAgent: the tools *)

NoRocksToThrow == <<"I don't have any rocks to throw!">>
UnknownTarget == <<"I don't know who that is.">>
NPCNotFound == <<"I can't find that NPC.">>
CannotThrowAtSelf == <<"I can't throw at myself!">>
TargetTooClose == <<"The target is too close!">>
NoRocksNearby == <<"I don't see any rocks nearby.">>
NoLampsNearby == <<"I don't see any lamps nearby.">>
PlayerIsAt == <<"Player is at (x, y, z)">>
GoingToShelter == <<"Going to shelter">>

\* faulty variant: what the NPC says is appended to the conversation log and saved
AgentSpeak_Persisted(w, message) ==
    NPCSpeak([w EXCEPT !.store = SaveMemory(
                  [@ EXCEPT !.mem.conversationHistory =
                       Append(@, [role |-> "assistant", content |-> message,
                                  sentiment |-> NullSentiment])])],
             message)

\* speak: the message goes to the NPC only, nothing is written to this.memory
AgentSpeak(w, message) == NPCSpeak(w, message)

\* faulty variant: the move is appended to the action log as a player action
MoveTo_RecordsAction(w, x, y, z) ==
    IF x.t # "num" \/ OrElse(y, Num(0)).t # "num" \/ z.t # "num"
    THEN Throw(w)
    ELSE [SetTargetPosition(w, [x |-> x.n, z |-> z.n])
             EXCEPT !.store = AddAction(@, "move_to", Null, TRUE)]

\* x.toFixed, (y || 0).toFixed and z.toFixed throw on a value that is no number
MoveTo(w, x, y, z) ==
    IF x.t # "num" \/ OrElse(y, Num(0)).t # "num" \/ z.t # "num"
    THEN Throw(w)
    ELSE SetTargetPosition(w, [x |-> x.n, z |-> z.n])

\* in: nearest is the rock the search returns ("none": no rocks), near tells
\* whether it is closer than 2.0
CollectNearestRock(n, w, in) ==
    IF in.nearest = "none" THEN AgentSpeak(w, NoRocksNearby)
    ELSE IF in.near
         THEN IF RockCollectOk(w, in.nearest)
              THEN AddRock(RockCollect(w, in.nearest), 1) ELSE w
         ELSE SetTimeout(SetTargetPosition(w, [beside |-> in.nearest]),
                         [npc |-> n, kind |-> "collect", object |-> in.nearest])

\* faulty variant: the callback takes the rock without looking at it
DeferredCollect_Unchecked(w, r) == AddRock(RockCollect(w, r), 1)

\* the callback of collectNearestRock's setTimeout
DeferredCollect(w, r) ==
    IF ~w.rockCollected[r]
    THEN IF RockCollectOk(w, r) THEN AddRock(RockCollect(w, r), 1) ELSE w
    ELSE w

InteractWithNearestLamp(n, w, in) ==
    IF in.nearest = "none" THEN AgentSpeak(w, NoLampsNearby)
    ELSE IF in.near THEN LampToggle(w, in.nearest)
         ELSE SetTimeout(SetTargetPosition(w, [beside |-> in.nearest]),
                         [npc |-> n, kind |-> "toggle", object |-> in.nearest])

\* in.tooClose: the target is less than 0.1 away from the thrower's head
IsPlayerId(v) == v.t = "str" /\ v.s \in {"player", "Player"}

\* faulty variant: the rock count is not looked at before aiming
ThrowRock_NoCountCheck(n, w, targetId, in) ==
    IF ~IsPlayerId(targetId) /\ ParseInt(targetId) = 0
         THEN AgentSpeak(w, UnknownTarget)
    ELSE IF ~IsPlayerId(targetId) /\ ParseInt(targetId) \notin NPCs
         THEN AgentSpeak(w, NPCNotFound)
    ELSE IF ~IsPlayerId(targetId) /\ ParseInt(targetId) = n
         THEN AgentSpeak(w, CannotThrowAtSelf)
    ELSE IF ~RemoveRockOk(w, 1) THEN RemoveRock(w, 1)
    ELSE IF in.tooClose
         THEN AgentSpeak(AddRock(RemoveRock(w, 1), 1), TargetTooClose)
    ELSE IF ThrowRockAtOk(FALSE, 0) THEN ThrowRockAt(RemoveRock(w, 1), NPCThrower(n))
    ELSE AddRock(RemoveRock(w, 1), 1)

\* faulty variant: the rock is not returned when the target is too close
ThrowRock_NoRefund(n, w, targetId, in) ==
    IF GetRockCount(w) < 1 THEN AgentSpeak(w, NoRocksToThrow)
    ELSE IF ~IsPlayerId(targetId) /\ ParseInt(targetId) = 0
         THEN AgentSpeak(w, UnknownTarget)
    ELSE IF ~IsPlayerId(targetId) /\ ParseInt(targetId) \notin NPCs
         THEN AgentSpeak(w, NPCNotFound)
    ELSE IF ~IsPlayerId(targetId) /\ ParseInt(targetId) = n
         THEN AgentSpeak(w, CannotThrowAtSelf)
    ELSE IF ~RemoveRockOk(w, 1) THEN RemoveRock(w, 1)
    ELSE IF in.tooClose
         THEN AgentSpeak(RemoveRock(w, 1), TargetTooClose)
    ELSE IF ThrowRockAtOk(FALSE, 0) THEN ThrowRockAt(RemoveRock(w, 1), NPCThrower(n))
    ELSE AddRock(RemoveRock(w, 1), 1)

ThrowRock(n, w, targetId, in) ==
    IF GetRockCount(w) < 1 THEN AgentSpeak(w, NoRocksToThrow)
    ELSE IF ~IsPlayerId(targetId) /\ ParseInt(targetId) = 0
         THEN AgentSpeak(w, UnknownTarget)
    ELSE IF ~IsPlayerId(targetId) /\ ParseInt(targetId) \notin NPCs
         THEN AgentSpeak(w, NPCNotFound)
    ELSE IF ~IsPlayerId(targetId) /\ ParseInt(targetId) = n
         THEN AgentSpeak(w, CannotThrowAtSelf)
    ELSE IF ~RemoveRockOk(w, 1) THEN RemoveRock(w, 1)
    ELSE IF in.tooClose
         THEN AgentSpeak(AddRock(RemoveRock(w, 1), 1), TargetTooClose)
    ELSE IF ThrowRockAtOk(FALSE, 0) THEN ThrowRockAt(RemoveRock(w, 1), NPCThrower(n))
    ELSE AddRock(RemoveRock(w, 1), 1)

GetPlayerPosition(w) == AgentSpeak(w, PlayerIsAt)

HideFromRain(w) == AgentSpeak(SetTargetPosition(w, [beside |-> "shelter"]), GoingToShelter)

\* the arguments getToolDefinitions declares as required
RequiredArgs(name) ==
    CASE name = "move_to" -> {"x", "z"}
      [] name = "speak" -> {"message"}
      [] name = "throw_rock" -> {"target_id"}
      [] OTHER -> {}

ToolNames == {"move_to", "speak", "collect_nearest_rock", "interact_with_nearest_lamp",
              "throw_rock", "get_player_position", "hide_from_rain"}

\* the switch of executeTool, before its catch
Dispatch(n, w, call, in) ==
    CASE call.name = "move_to" ->
            MoveTo(w, OrElse(Arg(call.args, "x"), Num(0)),
                      OrElse(Arg(call.args, "y"), Num(0)),
                      OrElse(Arg(call.args, "z"), Num(0)))
      [] call.name = "speak" ->
            AgentSpeak(w, IF Falsy(Arg(call.args, "message")) THEN <<>>
                          ELSE Arg(call.args, "message").w)
      [] call.name = "collect_nearest_rock" -> CollectNearestRock(n, w, in)
      [] call.name = "interact_with_nearest_lamp" -> InteractWithNearestLamp(n, w, in)
      [] call.name = "throw_rock" -> ThrowRock(n, w, Arg(call.args, "target_id"), in)
      [] call.name = "get_player_position" -> GetPlayerPosition(w)
      [] call.name = "hide_from_rain" -> HideFromRain(w)
      [] OTHER -> w

\* executeTool: an exception of the tool is caught and logged
\* faulty variant: executeTool without its try / catch
ExecuteTool_NoCatch(n, w, call, in) == Dispatch(n, w, call, in)

ExecuteTool(n, w, call, in) ==
    LET done == Dispatch(n, w, call, in)
    IN [done EXCEPT !.threw = FALSE]

----------------------------------------------------------------------------
(* NPCAgent: the decision cycle *)

NoEvent == [type |-> "none"]
NoResponse == [text |-> Text(<<>>), functionCalls |-> <<>>]

RECURSIVE JoinSpace(_)
\* texts.join(' ')
JoinSpace(texts) ==
    IF texts = <<>> THEN <<>>
    ELSE IF Len(texts) = 1 THEN texts[1]
    ELSE texts[1] \o <<Space>> \o JoinSpace(Tail(texts))

RECURSIVE SelectParts(_, _)
\* parts.filter(p => p[field]), field being "text" or "functionCall"
SelectParts(parts, field) ==
    IF parts = <<>> THEN <<>>
    ELSE LET keep == field \in DOMAIN parts[1]
                     /\ (field = "text" => parts[1].text # <<>>)
         IN (IF keep THEN <<parts[1]>> ELSE <<>>) \o SelectParts(Tail(parts), field)

NormalizeCall(fc) ==
    [name |-> fc.name, args |-> IF "args" \in DOMAIN fc THEN fc.args ELSE <<>>]

\* What analyzeSentiment returns for a reply of the sentiment service:
\* a sentiment object, or NullSentiment when the content is the JSON text null.
AnalyzeSentiment(reply) ==
    CASE reply.kind = "reject" -> [label |-> "neutral"]
      [] reply.kind = "http_error" -> [label |-> "neutral"]
      [] reply.kind = "json" -> [label |-> reply.label]
      [] reply.kind = "json_no_label" -> NoLabelSentiment
      [] reply.kind = "json_null" -> NullSentiment
      [] reply.kind = "prose" ->
            IF reply.words \cap {"hostile", "threatening", "negative"} # {}
            THEN [label |-> "hostile"]
            ELSE IF reply.words \cap {"friendly", "positive"} # {}
                 THEN [label |-> "friendly"]
                 ELSE [label |-> "neutral"]

\* faulty variant: response.ok is not tested, the error body is read as a reply
CallGemini_IgnoresStatus(reply) ==
    IF reply.kind = "reject" THEN [outcome |-> "throw"]
    ELSE LET data == reply.data IN
         IF "functionCalls" \in DOMAIN data /\ Len(data.functionCalls) > 0
         THEN [outcome |-> "response",
               response |-> [text |-> IF "text" \in DOMAIN data /\ ~Falsy(data.text)
                                      THEN data.text ELSE Text(<<>>),
                             functionCalls |-> [i \in 1..Len(data.functionCalls) |->
                                                  NormalizeCall(data.functionCalls[i])]]]
         ELSE IF "candidates" \in DOMAIN data /\ Len(data.candidates) > 0
         THEN LET candidate == data.candidates[1] IN
              IF "content" \notin DOMAIN candidate THEN [outcome |-> "throw"]
              ELSE IF "parts" \in DOMAIN candidate.content
              THEN LET parts == candidate.content.parts
                       calls == SelectParts(parts, "functionCall")
                       textParts == SelectParts(parts, "text")
                   IN [outcome |-> "response",
                       response |->
                         [text |-> Text(Trim(JoinSpace([i \in 1..Len(textParts) |->
                                                          textParts[i].text]))),
                          functionCalls |-> [i \in 1..Len(calls) |->
                                               NormalizeCall(calls[i].functionCall)]]]
              ELSE [outcome |-> "null"]
         ELSE [outcome |-> "null"]

\* faulty variant: candidates[0].content is read without looking at candidates[0]
CallGemini_EmptyThrows(reply) ==
    IF reply.kind \in {"reject", "http_error"} THEN [outcome |-> "throw"]
    ELSE LET data == reply.data IN
         IF "functionCalls" \in DOMAIN data /\ Len(data.functionCalls) > 0
         THEN [outcome |-> "response",
               response |-> [text |-> IF "text" \in DOMAIN data /\ ~Falsy(data.text)
                                      THEN data.text ELSE Text(<<>>),
                             functionCalls |-> [i \in 1..Len(data.functionCalls) |->
                                                  NormalizeCall(data.functionCalls[i])]]]
         ELSE IF "candidates" \in DOMAIN data
         THEN IF Len(data.candidates) = 0 THEN [outcome |-> "throw"]
              ELSE LET candidate == data.candidates[1] IN
              IF "content" \notin DOMAIN candidate THEN [outcome |-> "throw"]
              ELSE IF "parts" \in DOMAIN candidate.content
              THEN [outcome |-> "response", response |-> NoResponse]
              ELSE [outcome |-> "null"]
         ELSE [outcome |-> "null"]

\* What callGemini does with a reply of the reasoning service: it throws, it
\* returns null, or it returns the normalized response.
CallGemini(reply) ==
    IF reply.kind \in {"reject", "http_error"} THEN [outcome |-> "throw"]
    ELSE LET data == reply.data IN
         IF "functionCalls" \in DOMAIN data /\ Len(data.functionCalls) > 0
         THEN [outcome |-> "response",
               response |-> [text |-> IF "text" \in DOMAIN data /\ ~Falsy(data.text)
                                      THEN data.text ELSE Text(<<>>),
                             functionCalls |-> [i \in 1..Len(data.functionCalls) |->
                                                  NormalizeCall(data.functionCalls[i])]]]
         ELSE IF "candidates" \in DOMAIN data /\ Len(data.candidates) > 0
         THEN LET candidate == data.candidates[1] IN
              IF "content" \notin DOMAIN candidate THEN [outcome |-> "throw"]
              ELSE IF "parts" \in DOMAIN candidate.content
              THEN LET parts == candidate.content.parts
                       calls == SelectParts(parts, "functionCall")
                       textParts == SelectParts(parts, "text")
                   IN [outcome |-> "response",
                       response |->
                         [text |-> Text(Trim(JoinSpace([i \in 1..Len(textParts) |->
                                                          textParts[i].text]))),
                          functionCalls |-> [i \in 1..Len(calls) |->
                                               NormalizeCall(calls[i].functionCall)]]]
              ELSE [outcome |-> "null"]
         ELSE [outcome |-> "null"]

\* The agent of n as processEvent reads and writes it.
Agent(n) == [isProcessing |-> isProcessing[n], pc |-> pc[n], event |-> event[n],
             response |-> response[n], trace |-> trace[n], active |-> active[n]]

\* the finally block
Release(a) == [a EXCEPT !.isProcessing = FALSE, !.pc = "idle", !.event = NoEvent,
                        !.response = NoResponse, !.trace = <<>>, !.active = @ - 1]

\* faulty variant: the guard is cleared on the normal path only, not in a finally block
ReleaseOnError_Missing(a) == [a EXCEPT !.pc = "idle", !.event = NoEvent,
                                       !.response = NoResponse, !.trace = <<>>,
                                       !.active = @ - 1]

\* the catch and finally blocks after an exception inside the try block
ReleaseOnError(a) == Release(a)

\* faulty variant: the catch block takes the last recorded interaction back
CatchStore_RollsBack(s) ==
    LET log == s.mem.playerInteractions IN
    IF log = <<>> THEN s
    ELSE SaveMemory([s EXCEPT !.mem.playerInteractions = SubSeq(log, 1, Len(log) - 1),
                              !.mem.playerReputation = @ - log[Len(log)].reputationChange])

\* what the catch block does to the memory store: it logs the error, no more
CatchStore(s) == s

\* obj[k], undefined where the object has no such key
Prop(obj, k) == IF k \in DOMAIN obj THEN obj[k] ELSE Undefined

\* faulty variant: the prompt lists every interaction of the context
BuildSystemPrompt_AllInteractions(context) ==
    [playerReputation |-> context.playerReputation,
     interactions |-> [i \in DOMAIN context.recentPlayerInteractions |->
                         [type |-> Prop(context.recentPlayerInteractions[i], "type"),
                          impact |-> Prop(context.recentPlayerInteractions[i], "impact")]],
     actions |-> LET recent == SliceLast(context.recentActions, 3)
                 IN [i \in DOMAIN recent |-> Prop(recent[i], "action")]]

\* buildSystemPrompt: what the prompt tells of the memory context, namely the
\* reputation, "type (impact)" of the last interactions and the names of the
\* last actions
BuildSystemPrompt(context) ==
    [playerReputation |-> context.playerReputation,
     interactions |-> LET recent == SliceLast(context.recentPlayerInteractions, 3)
                      IN [i \in DOMAIN recent |->
                            [type |-> Prop(recent[i], "type"),
                             impact |-> Prop(recent[i], "impact")]],
     actions |-> LET recent == SliceLast(context.recentActions, 3)
                 IN [i \in DOMAIN recent |-> Prop(recent[i], "action")]]

\* getContext and callGemini up to the fetch; contextOk = FALSE: building the
\* context or the prompt throws
RequestReasoning(a, s, type, data, contextOk) ==
    IF ~contextOk THEN ReleaseOnError(a)
    ELSE [a EXCEPT !.pc = "gemini",
                   !.event = [type |-> type, data |-> data, context |-> GetContext(s),
                              prompt |-> BuildSystemPrompt(GetContext(s))]]

HasTranscript(data) == "transcript" \in DOMAIN data /\ data.transcript # ""

\* faulty variant: an event that finds the guard set replaces the one in flight
ProcessEvent_KeepsDropped(a, s, type, data, contextOk) ==
    IF a.isProcessing THEN [a EXCEPT !.event = [type |-> type, data |-> data]]
    ELSE LET taken == [a EXCEPT !.isProcessing = TRUE, !.active = @ + 1, !.trace = <<>>] IN
         IF type = "player_query" /\ HasTranscript(data)
         THEN [taken EXCEPT !.pc = "sentiment", !.event = [type |-> type, data |-> data]]
         ELSE RequestReasoning(taken, s, type, data, contextOk)

\* faulty variant: every player query goes to the sentiment service, text or not
ProcessEvent_AnyQuery(a, s, type, data, contextOk) ==
    IF a.isProcessing THEN a
    ELSE LET taken == [a EXCEPT !.isProcessing = TRUE, !.active = @ + 1, !.trace = <<>>] IN
         IF type = "player_query"
         THEN [taken EXCEPT !.pc = "sentiment", !.event = [type |-> type, data |-> data]]
         ELSE RequestReasoning(taken, s, type, data, contextOk)

\* faulty variant: processEvent without the isProcessing test
ProcessEvent_NoGuard(a, s, type, data, contextOk) ==
    LET taken == [a EXCEPT !.isProcessing = TRUE, !.active = @ + 1, !.trace = <<>>] IN
    IF type = "player_query" /\ HasTranscript(data)
    THEN [taken EXCEPT !.pc = "sentiment", !.event = [type |-> type, data |-> data]]
    ELSE RequestReasoning(taken, s, type, data, contextOk)

\* processEvent(eventType, eventData) up to its first suspension
ProcessEvent(a, s, type, data, contextOk) ==
    IF a.isProcessing THEN a
    ELSE LET taken == [a EXCEPT !.isProcessing = TRUE, !.active = @ + 1, !.trace = <<>>] IN
         IF type = "player_query" /\ HasTranscript(data)
         THEN [taken EXCEPT !.pc = "sentiment", !.event = [type |-> type, data |-> data]]
         ELSE RequestReasoning(taken, s, type, data, contextOk)

----------------------------------------------------------------------------
(* State after Game.setupNPCAgents: every NPC has its NPCMemory and NPCAgent *)

NewStores == [n \in NPCs |-> NewNPCMemory(n, Personality(n), Absent)]

NoTarget == [none |-> TRUE]
Rocks == {"rock1"}
Lamps == {"lamp1"}

WorldInit ==
    /\ isProcessing = [n \in NPCs |-> FALSE]
    /\ pc = [n \in NPCs |-> "idle"]
    /\ event = [n \in NPCs |-> NoEvent]
    /\ response = [n \in NPCs |-> NoResponse]
    /\ rocks = [n \in NPCs |-> 0]
    /\ targetPosition = [n \in NPCs |-> NoTarget]
    /\ currentSpeech = [n \in NPCs |-> NoSpeech]
    /\ projectiles = <<>>
    /\ rockCollected = [r \in Rocks |-> FALSE]
    /\ lampOn = [l \in Lamps |-> FALSE]
    /\ timers = <<>>
    /\ playerRocks = 0
    /\ active = [n \in NPCs |-> 0]
    /\ trace = [n \in NPCs |-> <<>>]
    /\ lastOp = [op |-> "init", npc |-> 0, arg |-> Null]
    /\ steps = 0
    /\ scripted = 0

world == <<isProcessing, pc, event, response, rocks, targetPosition, currentSpeech,
           projectiles, rockCollected, lampOn, timers, playerRocks, active, trace>>

----------------------------------------------------------------------------
(* Inputs: what the player, the services and the geometry may supply *)

MoveTo55 == [name |-> "move_to", args |-> [x |-> Num(5), z |-> Num(5)]]
MoveToText == [name |-> "move_to", args |-> [x |-> Str("five"), z |-> Num(5)]]
MoveToNoArgs == [name |-> "move_to", args |-> <<>>]
SpeakHi == [name |-> "speak", args |-> [message |-> Text(<<"hi">>)]]
SpeakNoArgs == [name |-> "speak", args |-> <<>>]
CollectRock == [name |-> "collect_nearest_rock", args |-> <<>>]
ToggleLamp == [name |-> "interact_with_nearest_lamp", args |-> <<>>]
ThrowAt(id) == [name |-> "throw_rock", args |-> [target_id |-> Str(id)]]
ThrowNoArgs == [name |-> "throw_rock", args |-> <<>>]
Hide == [name |-> "hide_from_rain", args |-> <<>>]
UnknownTool == [name |-> "nonexistent_tool", args |-> <<>>]

ToolCalls == {MoveTo55, MoveToText, MoveToNoArgs, SpeakHi, SpeakNoArgs, CollectRock,
              ToggleLamp, ThrowAt("player"), ThrowAt("1"), ThrowAt("2"), ThrowAt("7"),
              ThrowNoArgs, Hide, UnknownTool}

CallLists(calls, k) == UNION {[1..m -> calls] : m \in 0..k}

\* the geometry one tool call meets
ToolInputs(call) ==
    IF call.name = "collect_nearest_rock"
    THEN {[nearest |-> r, near |-> b] : r \in Rocks \cup {"none"}, b \in BOOLEAN}
    ELSE IF call.name = "interact_with_nearest_lamp"
    THEN {[nearest |-> l, near |-> b] : l \in Lamps \cup {"none"}, b \in BOOLEAN}
    ELSE IF call.name = "throw_rock"
    THEN {[tooClose |-> b] : b \in BOOLEAN}
    ELSE {[none |-> TRUE]}

SentimentReplies ==
    {[kind |-> "reject"], [kind |-> "http_error"], [kind |-> "json_null"]}
    \cup {[kind |-> "json", label |-> l] : l \in {"hostile", "neutral"}}
    \cup {[kind |-> "prose", words |-> ws] : ws \in {{}, {"threatening"}}}

\* the function-call lists the reasoning service answers a decision cycle with
CycleCalls == {<<>>, <<SpeakHi>>, <<UnknownTool, SpeakHi>>}

\* the bodies of the replies with status 2xx; shape names the case for the record
GeminiData ==
    {[shape |-> "functionCalls", functionCalls |-> calls] : calls \in CycleCalls \ {<<>>}}
    \cup {[shape |-> "no_functionCalls", functionCalls |-> <<>>],
          [shape |-> "functionCalls", functionCalls |-> <<[name |-> "speak"]>>,
           text |-> Text(<<"hi">>)],
          [shape |-> "functionCalls", functionCalls |-> <<UnknownTool>>, text |-> Num(5)],
          [shape |-> "empty_candidates", candidates |-> <<>>],
          [shape |-> "no_candidates", promptFeedback |-> "blocked"],
          [shape |-> "no_content", candidates |-> <<[finishReason |-> "SAFETY"]>>],
          [shape |-> "no_parts", candidates |-> <<[content |-> [role |-> "model"]]>>],
          [shape |-> "parts", candidates |-> <<[content |-> [parts |->
              <<[text |-> <<"hi">>], [functionCall |-> SpeakHi], [text |-> <<Space>>]>>]]>>]}

GeminiReplies ==
    {[kind |-> "reject", data |-> [shape |-> "reject"]],
     [kind |-> "http_error", data |-> [shape |-> "http_error"]]}
    \cup {[kind |-> "ok", data |-> d] : d \in GeminiData}

----------------------------------------------------------------------------
(* The handlers *)

Agents == [n \in NPCs |-> Agent(n)]
Stores == [n \in NPCs |-> Store(n)]

InstallAgents(ag) ==
    /\ isProcessing' = [n \in NPCs |-> ag[n].isProcessing]
    /\ pc' = [n \in NPCs |-> ag[n].pc]
    /\ event' = [n \in NPCs |-> ag[n].event]
    /\ response' = [n \in NPCs |-> ag[n].response]
    /\ trace' = [n \in NPCs |-> ag[n].trace]
    /\ active' = [n \in NPCs |-> ag[n].active]

InstallStores(st) ==
    /\ memory' = [n \in NPCs |-> st[n].mem]
    /\ localStorage' = [n \in NPCs |-> st[n].ls]

\* the key of the localStorage slot of NPC n; localStorage[n] is that slot
StorageKey(n) == <<"npc_memory_", n>>

\* faulty variant: every NPCMemory writes to one and the same key
InstallStore_SharedKey(n, s) ==
    /\ memory' = [memory EXCEPT ![n] = s.mem]
    /\ localStorage' = [m \in NPCs |-> s.ls]

InstallStore(n, s) ==
    /\ memory' = [memory EXCEPT ![n] = s.mem]
    /\ localStorage' = [localStorage EXCEPT ![n] = s.ls]

InstallWorld(n, w) ==
    /\ rocks' = [rocks EXCEPT ![n] = w.rocks]
    /\ targetPosition' = [targetPosition EXCEPT ![n] = w.target]
    /\ currentSpeech' = [currentSpeech EXCEPT ![n] = w.speech]
    /\ projectiles' = w.projectiles
    /\ rockCollected' = w.rockCollected
    /\ lampOn' = w.lampOn
    /\ timers' = w.timers

agentVars == <<isProcessing, pc, event, response, trace, active>>
storeVars == <<memory, localStorage, sumDeltas, savedDeltas>>
worldVars == <<rocks, targetPosition, currentSpeech, projectiles, rockCollected,
               lampOn, timers>>

\* The continuation of a processEvent call runs as microtasks: no timer, network
\* reply or frame of the game loop is handled before it has run to its end.
NoContinuation == \A n \in NPCs : pc[n] # "exec"

Stimulus ==
    /\ NoContinuation
    /\ steps < MaxSteps
    /\ steps' = steps + 1
    /\ UNCHANGED scripted

Follow == UNCHANGED <<steps, scripted>>

Did(op, n, arg) == lastOp' = [op |-> op, npc |-> n, arg |-> arg]

\* what the player says: each utterance of a run is a text of its own
Transcript(k) == IF k = 0 THEN "hello" ELSE "hello again"

\* Game.sendToNearbyNPCs: the transcript goes to the NPCs named in it, or to the closest
SendToNearbyNPCs ==
    \E targets \in SUBSET NPCs \ {{}}, transcript \in {Transcript(steps)},
       contextOk \in BOOLEAN :
        /\ Stimulus
        /\ InstallAgents([n \in NPCs |->
              IF n \in targets
              THEN ProcessEvent(Agent(n), Store(n), "player_query",
                                [transcript |-> transcript], contextOk)
              ELSE Agent(n)])
        /\ lastOp' = [op |-> "sendToNearbyNPCs", npc |-> 0, arg |-> transcript,
                       targets |-> targets]
        /\ UNCHANGED <<storeVars, worldVars, playerRocks>>

\* Game.checkEnvironmentChanges: every NPC is told of a weather or time change
CheckEnvironmentChanges ==
    \E change \in {"weather"}, contextOk \in BOOLEAN :
        /\ Stimulus
        /\ InstallAgents([n \in NPCs |->
              ProcessEvent(Agent(n), Store(n), "environment_change",
                           [change |-> change], contextOk)])
        /\ lastOp' = [op |-> "checkEnvironmentChanges", npc |-> 0, arg |-> change,
                       contextOk |-> contextOk]
        /\ UNCHANGED <<storeVars, worldVars, playerRocks>>

\* the player picks a rock up: Rock.collect, Inventory.addRocks
PlayerCollectRock ==
    \E r \in Rocks :
        /\ NoContinuation
        /\ ~rockCollected[r]
        /\ rockCollected' = [rockCollected EXCEPT ![r] = TRUE]
        /\ playerRocks' = playerRocks + 1
        /\ Did("collectRock", 0, r)
        /\ Follow
        /\ UNCHANGED <<storeVars, agentVars, rocks, targetPosition, currentSpeech,
                       projectiles, lampOn, timers>>

\* Game.throwRock: throwRockAt(start, direction, speed, player, true); with an
\* empty inventory throwRockAt returns false and nothing changes
PlayerThrowRock ==
    /\ NoContinuation
    /\ playerRocks >= 1
    /\ playerRocks' = playerRocks - 1
    /\ projectiles' = Append(projectiles, PlayerThrower)
    /\ Did("throwRock", 0, Null)
    /\ Follow
    /\ UNCHANGED <<storeVars, agentVars, rocks, targetPosition, currentSpeech,
                   rockCollected, lampOn, timers>>

RemoveAt(seq, i) == SubSeq(seq, 1, i - 1) \o SubSeq(seq, i + 1, Len(seq))

IsPlayer(thrower) == thrower.id = "player" \/ thrower.type = "player"

\* faulty variant: the hit is recorded only when the Hit event is accepted
OnHitStore_IfAccepted(n, thrower) ==
    IF IsPlayer(thrower) /\ ~isProcessing[n]
    THEN RecordPlayerHit(Store(n), "player") ELSE Store(n)

\* faulty variant: a hit is recorded whoever threw the rock
OnHitStore_AnyThrower(n, thrower) == RecordPlayerHit(Store(n), "player")

\* NPC.onHit, first part: a hit by the player is recorded in the memory
OnHitStore(n, thrower) ==
    IF IsPlayer(thrower) THEN RecordPlayerHit(Store(n), "player") ELSE Store(n)

\* ProjectileSystem.update: projectile i collides with NPC n; NPC.onHit
ProjectileHit ==
    \E i \in 1..Len(projectiles), n \in NPCs, contextOk \in BOOLEAN :
        LET thrower == projectiles[i]
            st == OnHitStore(n, thrower)
        IN /\ NoContinuation
           /\ ToString(n) # thrower.id
           /\ projectiles' = RemoveAt(projectiles, i)
           /\ InstallStores([Stores EXCEPT ![n] = st])
           /\ sumDeltas' = [sumDeltas EXCEPT ![n] =
                 IF st # Store(n)
                 THEN @ + st.mem.playerInteractions[Len(st.mem.playerInteractions)].reputationChange
                 ELSE @]
           /\ savedDeltas' = sumDeltas'
           /\ InstallAgents([Agents EXCEPT ![n] =
                 ProcessEvent(Agent(n), st, "hit", [thrower |-> thrower], contextOk)])
           /\ lastOp' = [op |-> "onHit", npc |-> n, arg |-> thrower.id,
                          contextOk |-> contextOk]
           /\ Follow
           /\ UNCHANGED <<rocks, targetPosition, currentSpeech, rockCollected, lampOn,
                          timers, playerRocks>>

\* ProjectileSystem.update: projectile i reaches the ground or its maximum age
ProjectileExpires ==
    \E i \in 1..Len(projectiles) :
        /\ NoContinuation
        /\ projectiles' = RemoveAt(projectiles, i)
        /\ Did("removeProjectile", 0, Null)
        /\ Follow
        /\ UNCHANGED <<storeVars, agentVars, rocks, targetPosition, currentSpeech,
                       rockCollected, lampOn, timers, playerRocks>>

\* faulty variant: the context is built before the message is recorded
ContextStore_BeforeRecord(before, after) == before

\* the store getContext reads in a player-query cycle: processEvent calls
\* recordPlayerMessage (line 60) before getContext (line 64)
ContextStore(before, after) == after

\* processEvent resumes with the reply of the sentiment service
SentimentReturns(n) ==
    \E reply \in SentimentReplies, contextOk \in BOOLEAN :
        LET sentiment == AnalyzeSentiment(reply)
            data == event[n].data
            rec == IF sentiment = NullSentiment THEN Store(n)
                   ELSE RecordPlayerMessage(Store(n), data.transcript, sentiment)
            st == IF sentiment = NullSentiment \/ ~contextOk THEN CatchStore(rec) ELSE rec
        IN /\ NoContinuation
           /\ pc[n] = "sentiment"
           /\ InstallStores([Stores EXCEPT ![n] = st])
           /\ sumDeltas' = [sumDeltas EXCEPT ![n] =
                 IF sentiment # NullSentiment
                 THEN @ + rec.mem.playerInteractions[Len(rec.mem.playerInteractions)].reputationChange
                 ELSE @]
           /\ savedDeltas' = sumDeltas'
           /\ InstallAgents([Agents EXCEPT ![n] =
                 IF sentiment = NullSentiment THEN ReleaseOnError(Agent(n))
                 ELSE RequestReasoning(Agent(n), ContextStore(Store(n), st),
                                       "player_query", data, contextOk)])
           /\ IF sentiment = NullSentiment THEN Did("analyzeSentiment", n, Null)
              ELSE Did("recordPlayerMessage", n, Label(sentiment))
           /\ Follow
           /\ UNCHANGED <<worldVars, playerRocks>>

\* processEvent resumes with the reply of the reasoning service
GeminiReply(n, reply) ==
    LET result == CallGemini(reply) IN
    /\ NoContinuation
    /\ pc[n] = "gemini"
    /\ InstallAgents([Agents EXCEPT ![n] =
          IF result.outcome = "throw" THEN ReleaseOnError(Agent(n))
          ELSE IF result.outcome = "null" THEN Release(Agent(n))
          ELSE [Agent(n) EXCEPT !.pc = "exec", !.response = result.response]])
    /\ InstallStore(n, IF result.outcome = "throw" THEN CatchStore(Store(n))
                        ELSE Store(n))
    /\ lastOp' = [op |-> "callGemini", npc |-> n, arg |-> reply.data.shape,
                   outcome |-> result.outcome, data |-> reply.data]
    /\ Follow
    /\ UNCHANGED <<sumDeltas, savedDeltas, worldVars, playerRocks>>

GeminiReturns(n) == \E reply \in GeminiReplies : GeminiReply(n, reply)

\* faulty variant: the loop of executeResponse stops at a tool name it does not know
NextCall_StopAtUnknown(a) ==
    IF Len(a.trace) > 0 /\ a.trace[Len(a.trace)].call \notin ToolNames
    THEN Len(a.response.functionCalls) + 1
    ELSE Len(a.trace) + 1

\* index of the function call the loop of executeResponse takes next
NextCall(a) == Len(a.trace) + 1

\* executeResponse: one turn of the loop over response.functionCalls; an
\* exception that leaves executeTool would end the loop in the catch block of
\* processEvent
ExecuteNextTool(n) ==
    /\ pc[n] = "exec"
    /\ NextCall(Agent(n)) <= Len(response[n].functionCalls)
    /\ LET call == response[n].functionCalls[NextCall(Agent(n))] IN
       \E in \in ToolInputs(call) :
          LET w == ExecuteTool(n, World(n), call, in) IN
          /\ InstallWorld(n, w)
          /\ IF w.threw
             THEN /\ InstallAgents([Agents EXCEPT ![n] = ReleaseOnError(Agent(n))])
                  /\ InstallStore(n, CatchStore(w.store))
                  /\ Did("executeTool", n, "throw")
             ELSE /\ trace' = [trace EXCEPT ![n] =
                                  Append(@, [call |-> call.name, effects |-> w.effects])]
                  /\ InstallStore(n, w.store)
                  /\ lastOp' = [op |-> "executeTool", npc |-> n, arg |-> call.name,
                                 in |-> in]
                  /\ UNCHANGED <<isProcessing, pc, event, response, active>>
    /\ Follow
    /\ UNCHANGED <<sumDeltas, savedDeltas, playerRocks>>

\* faulty variant: the free text is handled without waiting for the loop over the calls
FinishResponse_TextFirst(n) ==
    /\ pc[n] = "exec"
    /\ LET text == response[n].text IN
       IF text.t # "text"
       THEN /\ InstallAgents([Agents EXCEPT ![n] = ReleaseOnError(Agent(n))])
            /\ InstallStore(n, CatchStore(Store(n)))
            /\ Did("executeResponse", n, "throw")
            /\ UNCHANGED worldVars
       ELSE /\ InstallAgents([Agents EXCEPT ![n] = Release(Agent(n))])
            /\ IF Trim(text.w) # <<>>
               THEN LET w == AgentSpeak(World(n), text.w) IN
                    /\ InstallWorld(n, w)
                    /\ InstallStore(n, w.store)
                    /\ Did("executeResponse", n, "speak")
               ELSE /\ UNCHANGED <<worldVars, memory, localStorage>>
                    /\ Did("executeResponse", n, Null)
    /\ Follow
    /\ UNCHANGED <<sumDeltas, savedDeltas, playerRocks>>

\* executeResponse after the loop (the free text), then the finally block
FinishResponse(n) ==
    /\ pc[n] = "exec"
    /\ NextCall(Agent(n)) > Len(response[n].functionCalls)
    /\ LET text == response[n].text IN
       IF text.t # "text"
       THEN /\ InstallAgents([Agents EXCEPT ![n] = ReleaseOnError(Agent(n))])
            /\ InstallStore(n, CatchStore(Store(n)))
            /\ Did("executeResponse", n, "throw")
            /\ UNCHANGED worldVars
       ELSE /\ InstallAgents([Agents EXCEPT ![n] = Release(Agent(n))])
            /\ IF Trim(text.w) # <<>>
               THEN LET w == AgentSpeak(World(n), text.w) IN
                    /\ InstallWorld(n, w)
                    /\ InstallStore(n, w.store)
                    /\ Did("executeResponse", n, "speak")
               ELSE /\ UNCHANGED <<worldVars, memory, localStorage>>
                    /\ Did("executeResponse", n, Null)
    /\ Follow
    /\ UNCHANGED <<sumDeltas, savedDeltas, playerRocks>>

\* the oldest setTimeout callback of a two-phase tool runs
TimerFires ==
    /\ NoContinuation
    /\ timers # <<>>
    /\ LET callback == Head(timers)
           w == [World(callback.npc) EXCEPT !.timers = Tail(timers)]
       IN /\ InstallWorld(callback.npc,
                          IF callback.kind = "collect"
                          THEN DeferredCollect(w, callback.object)
                          ELSE LampToggle(w, callback.object))
          /\ lastOp' = [op |-> "timeout", npc |-> callback.npc, arg |-> callback.kind,
                         object |-> callback.object]
    /\ Follow
    /\ UNCHANGED <<storeVars, agentVars, playerRocks>>

Init ==
    /\ memory = [n \in NPCs |-> NewStores[n].mem]
    /\ localStorage = [n \in NPCs |-> NewStores[n].ls]
    /\ sumDeltas = [n \in NPCs |-> 0]
    /\ savedDeltas = [n \in NPCs |-> 0]
    /\ WorldInit

Next ==
    \/ SendToNearbyNPCs
    \/ CheckEnvironmentChanges
    \/ PlayerCollectRock
    \/ PlayerThrowRock
    \/ ProjectileHit
    \/ ProjectileExpires
    \/ \E n \in NPCs : SentimentReturns(n)
    \/ \E n \in NPCs : GeminiReturns(n)
    \/ \E n \in NPCs : ExecuteNextTool(n)
    \/ \E n \in NPCs : FinishResponse(n)

Spec == Init /\ [][Next]_vars

\* Every request to a service returns or fails, and the continuation of a call
\* that has its response runs to the end.
Fairness ==
    \A n \in NPCs :
        /\ WF_vars(SentimentReturns(n))
        /\ WF_vars(GeminiReturns(n))
        /\ WF_vars(ExecuteNextTool(n))
        /\ WF_vars(FinishResponse(n))

\* the behaviours with at most MaxFairSteps events from the player and the environment
FairNext == Next /\ steps' <= MaxFairSteps

FairSpec == Init /\ [][FairNext]_vars /\ Fairness

----------------------------------------------------------------------------
(* executeResponse on its own: one agent works through a response *)

ToolNPC == 1

\* the stores when the response arrives: the player has sent ToolNPC a hostile
\* message and hit it once
ToolStores ==
    [n \in NPCs |->
        IF n = ToolNPC
        THEN RecordPlayerHit(RecordPlayerMessage(NewStores[n], "hello", [label |-> "hostile"]),
                             "player")
        ELSE NewStores[n]]

ToolInit ==
    \E calls \in CallLists(ToolCalls, MaxCalls), text \in {<<>>, <<"hi">>}, held \in {0, 1} :
        /\ memory = [n \in NPCs |-> ToolStores[n].mem]
        /\ localStorage = [n \in NPCs |-> ToolStores[n].ls]
        /\ sumDeltas = [n \in NPCs |-> IF n = ToolNPC THEN -NegativeDelta - HitDelta ELSE 0]
        /\ savedDeltas = sumDeltas
        /\ isProcessing = [n \in NPCs |-> n = ToolNPC]
        /\ pc = [n \in NPCs |-> IF n = ToolNPC THEN "exec" ELSE "idle"]
        /\ event = [n \in NPCs |->
              IF n = ToolNPC
              THEN [type |-> "environment_change", data |-> [change |-> "weather"],
                    context |-> GetContext(ToolStores[n])]
              ELSE NoEvent]
        /\ response = [n \in NPCs |->
              IF n = ToolNPC THEN [text |-> Text(text), functionCalls |-> calls]
              ELSE NoResponse]
        /\ rocks = [n \in NPCs |-> IF n = ToolNPC THEN held ELSE 0]
        /\ targetPosition = [n \in NPCs |-> NoTarget]
        /\ currentSpeech = [n \in NPCs |-> NoSpeech]
        /\ projectiles = <<>>
        /\ rockCollected = [r \in Rocks |-> held = 1]
        /\ lampOn = [l \in Lamps |-> FALSE]
        /\ timers = <<>>
        /\ playerRocks = 0
        /\ active = [n \in NPCs |-> IF n = ToolNPC THEN 1 ELSE 0]
        /\ trace = [n \in NPCs |-> <<>>]
        /\ lastOp = [op |-> "callGemini", npc |-> ToolNPC, arg |-> "functionCalls",
                      outcome |-> "response"]
        /\ steps = 0
        /\ scripted = 0

ToolNext ==
    \/ ExecuteNextTool(ToolNPC)
    \/ FinishResponse(ToolNPC)
    \/ TimerFires

ToolSpec == ToolInit /\ [][ToolNext]_vars

----------------------------------------------------------------------------
(* callGemini on its own: one agent waits for the reasoning service, the     *)
(* reply is any body of either shape built from a few parts, and the         *)
(* response it is normalized to is executed.                                 *)

MaxParts == 3

CollectNoArgs == [name |-> "collect_nearest_rock"]

ReplyParts ==
    {[text |-> <<"hi">>], [text |-> <<Space, "there", Space>>], [text |-> <<>>],
     [functionCall |-> SpeakHi], [functionCall |-> CollectNoArgs],
     [functionCall |-> MoveTo55]}

PartLists == UNION {[1..m -> ReplyParts] : m \in 0..MaxParts}

ReplyData ==
    {[shape |-> "parts", candidates |-> <<[content |-> [parts |-> parts]]>>] :
        parts \in PartLists}
    \cup {[shape |-> "direct", functionCalls |-> calls, text |-> Text(text)] :
             calls \in CallLists({SpeakHi, CollectNoArgs}, 2),
             text \in {<<>>, <<"hi">>, <<Space, "hi">>, <<Space>>}}

ReplyReplies ==
    {[kind |-> "http_error", data |-> [shape |-> "http_error"]]}
    \cup {[kind |-> "ok", data |-> d] : d \in ReplyData}

ReplyInit ==
    /\ memory = [n \in NPCs |-> ToolStores[n].mem]
    /\ localStorage = [n \in NPCs |-> ToolStores[n].ls]
    /\ sumDeltas = [n \in NPCs |-> IF n = ToolNPC THEN -NegativeDelta - HitDelta ELSE 0]
    /\ savedDeltas = sumDeltas
    /\ isProcessing = [n \in NPCs |-> n = ToolNPC]
    /\ pc = [n \in NPCs |-> IF n = ToolNPC THEN "gemini" ELSE "idle"]
    /\ event = [n \in NPCs |->
          IF n = ToolNPC
          THEN [type |-> "hit", data |-> [thrower |-> PlayerThrower],
                context |-> GetContext(ToolStores[n])]
          ELSE NoEvent]
    /\ response = [n \in NPCs |-> NoResponse]
    /\ rocks = [n \in NPCs |-> 0]
    /\ targetPosition = [n \in NPCs |-> NoTarget]
    /\ currentSpeech = [n \in NPCs |-> NoSpeech]
    /\ projectiles = <<>>
    /\ rockCollected = [r \in Rocks |-> FALSE]
    /\ lampOn = [l \in Lamps |-> FALSE]
    /\ timers = <<>>
    /\ playerRocks = 0
    /\ active = [n \in NPCs |-> IF n = ToolNPC THEN 1 ELSE 0]
    /\ trace = [n \in NPCs |-> <<>>]
    /\ lastOp = [op |-> "onHit", npc |-> ToolNPC, arg |-> "player", contextOk |-> TRUE]
    /\ steps = 0
    /\ scripted = 0

ReplyReturns == \E reply \in ReplyReplies : GeminiReply(ToolNPC, reply)

ReplyNext ==
    \/ ReplyReturns
    \/ ExecuteNextTool(ToolNPC)
    \/ FinishResponse(ToolNPC)
    \/ TimerFires

ReplySpec == ReplyInit /\ [][ReplyNext]_vars

----------------------------------------------------------------------------
(* processEvent on its own: one agent, called with events of every type and  *)
(* with player queries with, without and with empty text.                     *)

MaxEvents == 2

\* eventType and eventData of a call; a key processEvent does not read stands
\* for an object without the transcript
EventInputs ==
    {[type |-> "hit", data |-> [thrower |-> PlayerThrower]],
     [type |-> "environment_change", data |-> [change |-> "weather"]],
     [type |-> "periodic", data |-> [tick |-> 1]],
     [type |-> "player_query", data |-> [transcript |-> "hello"]],
     [type |-> "player_query", data |-> [transcript |-> ""]],
     [type |-> "player_query", data |-> [source |-> "voice"]]}

EventInit ==
    /\ memory = [n \in NPCs |-> NewStores[n].mem]
    /\ localStorage = [n \in NPCs |-> NewStores[n].ls]
    /\ sumDeltas = [n \in NPCs |-> 0]
    /\ savedDeltas = [n \in NPCs |-> 0]
    /\ WorldInit

\* agent.processEvent(eventType, eventData)
DeliverEvent(n) ==
    \E ev \in EventInputs, contextOk \in BOOLEAN :
        /\ NoContinuation
        /\ steps < MaxEvents
        /\ steps' = steps + 1
        /\ scripted' = scripted
        /\ InstallAgents([Agents EXCEPT ![n] =
              ProcessEvent(Agent(n), Store(n), ev.type, ev.data, contextOk)])
        /\ lastOp' = [op |-> "processEvent", npc |-> n, arg |-> ev.type, data |-> ev.data,
                       contextOk |-> contextOk]
        /\ UNCHANGED <<storeVars, worldVars, playerRocks>>

EventNext ==
    \/ DeliverEvent(ToolNPC)
    \/ SentimentReturns(ToolNPC)
    \/ GeminiReturns(ToolNPC)
    \/ ExecuteNextTool(ToolNPC)
    \/ FinishResponse(ToolNPC)

EventSpec == EventInit /\ [][EventNext]_vars

----------------------------------------------------------------------------
(* The rock: both agents wait for the reasoning service after a change of    *)
(* the weather, and the replies send them after the one rock of the world,   *)
(* which the player may pick up and throw as well.  A rock that was thrown   *)
(* is gone, so every run ends by itself.                                     *)

RockCalls == CallLists({CollectRock, ThrowAt("1"), ThrowAt("2")}, 2)

RockReplies ==
    {[kind |-> "reject", data |-> [shape |-> "reject"]]}
    \cup {[kind |-> "ok", data |-> [shape |-> "functionCalls", functionCalls |-> calls]] :
             calls \in RockCalls}

RockInit ==
    /\ memory = [n \in NPCs |-> NewStores[n].mem]
    /\ localStorage = [n \in NPCs |-> NewStores[n].ls]
    /\ sumDeltas = [n \in NPCs |-> 0]
    /\ savedDeltas = [n \in NPCs |-> 0]
    /\ isProcessing = [n \in NPCs |-> TRUE]
    /\ pc = [n \in NPCs |-> "gemini"]
    /\ event = [n \in NPCs |->
          [type |-> "environment_change", data |-> [change |-> "weather"],
           context |-> GetContext(NewStores[n]),
           prompt |-> BuildSystemPrompt(GetContext(NewStores[n]))]]
    /\ response = [n \in NPCs |-> NoResponse]
    /\ rocks = [n \in NPCs |-> 0]
    /\ targetPosition = [n \in NPCs |-> NoTarget]
    /\ currentSpeech = [n \in NPCs |-> NoSpeech]
    /\ projectiles = <<>>
    /\ rockCollected = [r \in Rocks |-> FALSE]
    /\ lampOn = [l \in Lamps |-> FALSE]
    /\ timers = <<>>
    /\ playerRocks = 0
    /\ active = [n \in NPCs |-> 1]
    /\ trace = [n \in NPCs |-> <<>>]
    /\ lastOp = [op |-> "checkEnvironmentChanges", npc |-> 0, arg |-> "weather",
                  contextOk |-> TRUE]
    /\ steps = 0
    /\ scripted = 0

RockReturns(n) == \E reply \in RockReplies : GeminiReply(n, reply)

RockNext ==
    \/ PlayerCollectRock
    \/ PlayerThrowRock
    \/ ProjectileHit
    \/ ProjectileExpires
    \/ TimerFires
    \/ \E n \in NPCs : RockReturns(n)
    \/ \E n \in NPCs : ExecuteNextTool(n)
    \/ \E n \in NPCs : FinishResponse(n)

RockSpec == RockInit /\ [][RockNext]_vars

----------------------------------------------------------------------------
(* The memory store on its own: the public methods of one NPCMemory called  *)
(* in any order, starting from a store left by an earlier session.          *)

MemNPC == 1

MemInit ==
    /\ memory = [n \in NPCs |-> NewStores[n].mem]
    /\ localStorage = [n \in NPCs |-> NewStores[n].ls]
    /\ sumDeltas = [n \in NPCs |-> 0]
    /\ savedDeltas = [n \in NPCs |-> 0]
    /\ WorldInit

\* The calls are explored in two phases, because no search reaches 50 entries
\* of every kind: first an opening sequence of up to MaxPrior calls with one
\* fixed pattern (two neutral messages, then three hits, repeated: 20 messages
\* and 30 hits fill the three logs exactly), then, from the stores reached
\* after 0 or MaxPrior-3..MaxPrior of them, up to MaxMemOps calls chosen freely.
OpeningCall(k) ==
    IF k % 5 \in {0, 1} THEN <<"recordPlayerMessage", "neutral">>
    ELSE <<"recordPlayerHit", "player">>

PriorChoices == {0} \cup {k \in (MaxPrior - 3)..MaxPrior : k >= 0}

Budget(op, arg) ==
    \/ /\ steps = 0
       /\ scripted < MaxPrior
       /\ OpeningCall(scripted) = <<op, arg>>
       /\ scripted' = scripted + 1
       /\ steps' = steps
    \/ /\ scripted \in PriorChoices
       /\ steps < MaxMemOps
       /\ steps' = steps + 1
       /\ scripted' = scripted

\* the store of MemNPC becomes s; recorded tells whether an interaction was recorded
MemCall(s, recorded, op, arg) ==
    /\ memory' = [memory EXCEPT ![MemNPC] = s.mem]
    /\ localStorage' = [localStorage EXCEPT ![MemNPC] = s.ls]
    /\ sumDeltas' = [sumDeltas EXCEPT ![MemNPC] =
                        IF recorded
                        THEN @ + s.mem.playerInteractions[Len(s.mem.playerInteractions)].reputationChange
                        ELSE IF op = "loadMemory"
                             THEN IF s.ls.present THEN savedDeltas[MemNPC] ELSE 0
                             ELSE @]
    /\ savedDeltas' = [savedDeltas EXCEPT ![MemNPC] =
                        IF s.ls # localStorage[MemNPC] THEN sumDeltas'[MemNPC] ELSE @]
    /\ lastOp' = [op |-> op, npc |-> MemNPC, arg |-> arg, writable |-> s.writable]
    /\ UNCHANGED world

MemStep(s, recorded, op, arg) == Budget(op, arg) /\ MemCall(s, recorded, op, arg)

MemSentiments == {[label |-> l] : l \in Labels \cup {OtherLabel}} \cup {NoLabelSentiment}

MemRecordPlayerHit ==
    MemStep(RecordPlayerHit(Store(MemNPC), "player"), TRUE, "recordPlayerHit", "player")

MemRecordPlayerMessage ==
    \E sentiment \in MemSentiments :
        MemStep(RecordPlayerMessage(Store(MemNPC), "hello", sentiment), TRUE,
                "recordPlayerMessage", Label(sentiment))

MemAddConversation ==
    \E role \in {"user", "assistant"} :
        MemStep(AddConversation(Store(MemNPC), role, "hello", NullSentiment), FALSE,
                "addConversation", role)

MemAddAction ==
    \E isPlayerAction \in BOOLEAN :
        MemStep(AddAction(Store(MemNPC), "move_to", Null, isPlayerAction), FALSE,
                "addAction", IF isPlayerAction THEN "player" ELSE "npc")

MemSetPersonality ==
    \E p \in {Personality(1), Personality(2)} :
        MemStep(SetPersonality(Store(MemNPC), p), FALSE, "setPersonality", p)

\* the context of a decision cycle: NPCMemory.getContext, and the prompt
\* buildSystemPrompt makes of it
MemGetContext ==
    /\ Budget("getContext", Null)
    /\ lastOp' = [op |-> "getContext", npc |-> MemNPC, arg |-> Null, writable |-> TRUE,
                   prompt |-> BuildSystemPrompt(GetContext(Store(MemNPC)))]
    /\ UNCHANGED <<storeVars, world>>

\* the page is reloaded: a new NPCMemory is constructed for the same id
MemReload ==
    \E p \in {Personality(1), Personality(2)} :
        MemStep(NewNPCMemory(MemNPC, p, localStorage[MemNPC]), FALSE, "loadMemory", p)

MemNext ==
    \/ MemRecordPlayerHit
    \/ MemRecordPlayerMessage
    \/ MemAddConversation
    \/ MemAddAction
    \/ MemSetPersonality
    \/ MemGetContext
    \/ MemReload

MemSpec == MemInit /\ [][MemNext]_vars

----------------------------------------------------------------------------
(* The logs over long runs: one store takes a long series of appends, each   *)
(* entry carrying a text of its own, the way each real entry carries its     *)
(* own timestamp.                                                            *)

MaxOver == 3

\* what a series consists of: one method called again and again, or
\* recordPlayerMessage, recordPlayerHit and addAction in turn
LogModes == {"addConversation", "addAction", "recordPlayerHit", "turns"}

\* the calls of a series: enough to fill every log the series appends to and
\* go MaxOver entries past its cap
LogLength(mode) ==
    IF mode = "addConversation" THEN ConversationCap + MaxOver
    ELSE IF mode = "addAction" THEN ActionCap + MaxOver
    ELSE IF mode = "recordPlayerHit" THEN InteractionCap + MaxOver
    ELSE InteractionCap + ActionCap + MaxOver

\* the method the k-th call of a series is
LogOp(mode, k) ==
    IF mode # "turns" THEN mode
    ELSE IF k % 3 = 1 THEN "recordPlayerMessage"
    ELSE IF k % 3 = 2 THEN "recordPlayerHit"
    ELSE "addAction"

\* the text that tells the k-th entry of a run from the others
LogTag(k) == ToString(k)

\* a record with len entries in each log, as a version of the game with
\* larger caps wrote it (the caps were "reduced from 50" and "from 100") or
\* another script of the page; its entries carry the texts -1, -2, ...
OldRecord(n, len) ==
    JSONStringify(
        [EmptyMemory(n, Personality(n)) EXCEPT
            !.conversationHistory =
                [i \in 1..len |-> [role |-> "user", content |-> LogTag(-i),
                                   sentiment |-> NullSentiment]],
            !.actionMemory =
                [i \in 1..len |-> [action |-> "player_hit", details |-> LogTag(-i)]],
            !.playerInteractions =
                [i \in 1..len |-> [type |-> "hit", impact |-> "hostile",
                                   reputationChange |-> -HitDelta, throwerId |-> LogTag(-i)]],
            !.playerReputation = -HitDelta * len])

\* the store is constructed on an empty slot, or on an old record that has
\* 1..MaxOver entries more than the largest cap in each log; scripted tells
\* how many entries per log the record had
LogInit ==
    /\ \E len \in {0} \cup {InteractionCap + k : k \in 1..MaxOver} :
          LET ls == IF len = 0 THEN Absent ELSE OldRecord(MemNPC, len)
              s == NewNPCMemory(MemNPC, Personality(MemNPC), ls)
          IN /\ memory = [n \in NPCs |-> IF n = MemNPC THEN s.mem ELSE NewStores[n].mem]
             /\ localStorage = [n \in NPCs |-> IF n = MemNPC THEN s.ls ELSE NewStores[n].ls]
             /\ sumDeltas = [n \in NPCs |-> IF n = MemNPC THEN -HitDelta * len ELSE 0]
             /\ savedDeltas = sumDeltas
             /\ scripted = len
    /\ isProcessing = [n \in NPCs |-> FALSE]
    /\ pc = [n \in NPCs |-> "idle"]
    /\ event = [n \in NPCs |-> NoEvent]
    /\ response = [n \in NPCs |-> NoResponse]
    /\ rocks = [n \in NPCs |-> 0]
    /\ targetPosition = [n \in NPCs |-> NoTarget]
    /\ currentSpeech = [n \in NPCs |-> NoSpeech]
    /\ projectiles = <<>>
    /\ rockCollected = [r \in Rocks |-> FALSE]
    /\ lampOn = [l \in Lamps |-> FALSE]
    /\ timers = <<>>
    /\ playerRocks = 0
    /\ active = [n \in NPCs |-> 0]
    /\ trace = [n \in NPCs |-> <<>>]
    /\ lastOp = [op |-> "init", npc |-> 0, arg |-> Null]
    /\ steps = 0

\* the series the run is in: chosen by its first call
LogSeries(mode, op) ==
    /\ lastOp.op # "init" => lastOp.mode = mode
    /\ steps < LogLength(mode)
    /\ LogOp(mode, steps + 1) = op
    /\ steps' = steps + 1
    /\ scripted' = scripted

\* the store of MemNPC becomes s; appended names the logs the call appends to
LogCall(s, mode, op, appended) ==
    /\ memory' = [memory EXCEPT ![MemNPC] = s.mem]
    /\ localStorage' = [localStorage EXCEPT ![MemNPC] = s.ls]
    /\ sumDeltas' = [sumDeltas EXCEPT ![MemNPC] =
          IF op = "recordPlayerHit" THEN @ - HitDelta
          ELSE IF op = "recordPlayerMessage" THEN @ + NeutralDelta
          ELSE @]
    /\ savedDeltas' = sumDeltas'
    /\ trace' = [trace EXCEPT ![MemNPC] =
          @ \o [i \in DOMAIN appended |-> [log |-> appended[i], tag |-> LogTag(steps + 1)]]]
    /\ lastOp' = [op |-> op, npc |-> MemNPC, arg |-> LogTag(steps + 1), mode |-> mode]
    /\ UNCHANGED <<isProcessing, pc, event, response, worldVars, playerRocks, active>>

LogAddConversation ==
    \E mode \in LogModes :
        /\ LogSeries(mode, "addConversation")
        /\ LogCall(AddConversation(Store(MemNPC), "user", LogTag(steps + 1), NullSentiment),
                   mode, "addConversation", <<"conversationHistory">>)

LogAddAction ==
    \E mode \in LogModes :
        /\ LogSeries(mode, "addAction")
        /\ LogCall(AddAction(Store(MemNPC), "player_action", LogTag(steps + 1), TRUE),
                   mode, "addAction", <<"actionMemory">>)

LogRecordPlayerHit ==
    \E mode \in LogModes :
        /\ LogSeries(mode, "recordPlayerHit")
        /\ LogCall(RecordPlayerHit(Store(MemNPC), LogTag(steps + 1)),
                   mode, "recordPlayerHit", <<"playerInteractions", "actionMemory">>)

LogRecordPlayerMessage ==
    \E mode \in LogModes :
        /\ LogSeries(mode, "recordPlayerMessage")
        /\ LogCall(RecordPlayerMessage(Store(MemNPC), LogTag(steps + 1), [label |-> "neutral"]),
                   mode, "recordPlayerMessage", <<"playerInteractions", "conversationHistory">>)

LogNext ==
    \/ LogAddConversation
    \/ LogAddAction
    \/ LogRecordPlayerHit
    \/ LogRecordPlayerMessage

LogSpec == LogInit /\ [][LogNext]_vars

----------------------------------------------------------------------------
(* Persistence: the same methods over a localStorage whose writes may fail   *)
(* (quota exceeded), starting from an empty slot or from a record that an    *)
(* earlier version of the game left behind.                                  *)

MaxPersistOps == 3

\* a record written before playerReputation and playerInteractions existed,
\* the case loadMemory fills in "for backward compatibility"
LegacyRecord(n) ==
    [present |-> TRUE,
     text |-> [npcId |-> n, personality |-> Personality(n),
               conversationHistory |-> <<>>, actionMemory |-> <<>>]]

PersistInit ==
    /\ \E ls \in {Absent, LegacyRecord(MemNPC)} :
          /\ memory = [n \in NPCs |-> IF n = MemNPC
                                      THEN NewNPCMemory(n, Personality(n), ls).mem
                                      ELSE NewStores[n].mem]
          /\ localStorage = [n \in NPCs |-> IF n = MemNPC
                                            THEN NewNPCMemory(n, Personality(n), ls).ls
                                            ELSE NewStores[n].ls]
    /\ sumDeltas = [n \in NPCs |-> 0]
    /\ savedDeltas = [n \in NPCs |-> 0]
    /\ WorldInit

PersistStep(s, recorded, op, arg) ==
    /\ steps < MaxPersistOps
    /\ steps' = steps + 1
    /\ scripted' = scripted
    /\ MemCall(s, recorded, op, arg)

PersistSentiments == {[label |-> "hostile"], NoLabelSentiment}

\* the store as a call finds it; writable tells whether setItem will succeed
PersistStore(writable) == [Store(MemNPC) EXCEPT !.writable = writable]

PersistRecordPlayerHit ==
    \E w \in BOOLEAN :
        PersistStep(RecordPlayerHit(PersistStore(w), "player"), TRUE,
                    "recordPlayerHit", "player")

PersistRecordPlayerMessage ==
    \E w \in BOOLEAN, sentiment \in PersistSentiments :
        PersistStep(RecordPlayerMessage(PersistStore(w), "hello", sentiment), TRUE,
                    "recordPlayerMessage", Label(sentiment))

PersistAddConversation ==
    \E w \in BOOLEAN, role \in {"user", "assistant"} :
        PersistStep(AddConversation(PersistStore(w), role, "hello", NullSentiment), FALSE,
                    "addConversation", role)

PersistAddAction ==
    \E w \in BOOLEAN, isPlayerAction \in BOOLEAN :
        PersistStep(AddAction(PersistStore(w), "move_to", Null, isPlayerAction), FALSE,
                    "addAction", IF isPlayerAction THEN "player" ELSE "npc")

PersistSetPersonality ==
    \E w \in BOOLEAN, p \in {Personality(1), Personality(2)} :
        PersistStep(SetPersonality(PersistStore(w), p), FALSE, "setPersonality", p)

PersistGetContext ==
    PersistStep(Store(MemNPC), FALSE, "getContext", Null)

\* the page is reloaded: a new NPCMemory is constructed for the same id
PersistReload ==
    \E p \in {Personality(1), Personality(2)} :
        PersistStep(NewNPCMemory(MemNPC, p, localStorage[MemNPC]), FALSE, "loadMemory", p)

PersistNext ==
    \/ PersistRecordPlayerHit
    \/ PersistRecordPlayerMessage
    \/ PersistAddConversation
    \/ PersistAddAction
    \/ PersistSetPersonality
    \/ PersistGetContext
    \/ PersistReload

PersistSpec == PersistInit /\ [][PersistNext]_vars

----------------------------------------------------------------------------
(* Construction: new NPCMemory against whatever the slot of its key holds.   *)
(* localStorage is shared by every script of the origin and open to the      *)
(* user, so the slot can hold a text this NPCMemory did not write.           *)

MaxLoadOps == 3

\* no NPCMemory object: the constructor ended in an exception
NoStore == [none |-> TRUE]

ForeignItems == {Absent, InvalidJSON, JSONNull, LegacyRecord(MemNPC)}

LoadInit ==
    /\ memory = [n \in NPCs |-> NewStores[n].mem]
    /\ localStorage = [n \in NPCs |-> NewStores[n].ls]
    /\ sumDeltas = [n \in NPCs |-> 0]
    /\ savedDeltas = [n \in NPCs |-> 0]
    /\ WorldInit

LoadStep ==
    /\ steps < MaxLoadOps
    /\ steps' = steps + 1
    /\ scripted' = scripted

\* the slot is cleared or overwritten from outside
LoadForeignWrite ==
    \E item \in ForeignItems :
        /\ LoadStep
        /\ localStorage' = [localStorage EXCEPT ![MemNPC] = item]
        /\ savedDeltas' = [savedDeltas EXCEPT ![MemNPC] = 0]
        /\ lastOp' = [op |-> "foreignWrite", npc |-> MemNPC, arg |-> Null]
        /\ UNCHANGED <<memory, sumDeltas, world>>

\* the page is reloaded: new NPCMemory(npcId, personality)
LoadConstruct ==
    \E p \in {Null, Personality(1), Personality(2)} :
        LET s == NewNPCMemory(MemNPC, p, localStorage[MemNPC])
            threw == NewNPCMemoryThrows(MemNPC, p, localStorage[MemNPC])
        IN /\ LoadStep
           /\ memory' = [memory EXCEPT ![MemNPC] = IF threw THEN NoStore ELSE s.mem]
           /\ localStorage' = [localStorage EXCEPT ![MemNPC] = s.ls]
           /\ sumDeltas' = [sumDeltas EXCEPT ![MemNPC] =
                               IF s.ls.present THEN savedDeltas[MemNPC] ELSE 0]
           /\ savedDeltas' = [savedDeltas EXCEPT ![MemNPC] =
                               IF s.ls # localStorage[MemNPC] THEN sumDeltas'[MemNPC] ELSE @]
           /\ lastOp' = [op |-> "loadMemory", npc |-> MemNPC, arg |-> p,
                          outcome |-> IF threw THEN "throw" ELSE "ok"]
           /\ UNCHANGED world

\* a method called on a store whose this.memory is null throws on its first
\* property read and changes nothing
LoadRecordPlayerHit ==
    /\ memory[MemNPC] # NoStore
    /\ IF memory[MemNPC] = NullMemory
       THEN PersistStep(Store(MemNPC), FALSE, "recordPlayerHit", "throw")
       ELSE PersistStep(RecordPlayerHit(Store(MemNPC), "player"), TRUE,
                        "recordPlayerHit", "player")

LoadRecordPlayerMessage ==
    /\ memory[MemNPC] # NoStore
    /\ IF memory[MemNPC] = NullMemory
       THEN PersistStep(Store(MemNPC), FALSE, "recordPlayerMessage", "throw")
       ELSE PersistStep(RecordPlayerMessage(Store(MemNPC), "hello", [label |-> "hostile"]),
                        TRUE, "recordPlayerMessage", "hostile")

LoadNext ==
    \/ LoadForeignWrite
    \/ LoadConstruct
    \/ LoadRecordPlayerHit
    \/ LoadRecordPlayerMessage

LoadSpec == LoadInit /\ [][LoadNext]_vars

----------------------------------------------------------------------------
(* Claims about the memory store *)

\* C3: after any sequence of recordPlayerHit, recordPlayerMessage, addConversation
\* and addAction calls the conversation log holds at most 20 entries, the
\* action log at most 30 and the player-interaction log at most 50.
C3_LogsWithinCaps ==
    \A n \in NPCs :
        /\ Len(memory[n].conversationHistory) <= 20
        /\ Len(memory[n].actionMemory) <= 30
        /\ Len(memory[n].playerInteractions) <= 50

\* a 51st and 52nd interaction were recorded into full logs
C3_Witness ==
    /\ scripted = 50 /\ steps = 2
    /\ lastOp.op = "recordPlayerHit"
    /\ Len(memory[MemNPC].conversationHistory) = 20
    /\ Len(memory[MemNPC].actionMemory) = 30
    /\ Len(memory[MemNPC].playerInteractions) = 50

\* C4: the reputation equals the sum of the reputation deltas of all
\* PlayerInteractions recorded so far (evicted ones included).
C4_ReputationIsSumOfDeltas ==
    \A n \in NPCs : memory[n].playerReputation = sumDeltas[n]

\* more than 50 interactions of both kinds were recorded
C4_Witness ==
    /\ scripted = 50 /\ steps = 3
    /\ lastOp.op = "recordPlayerMessage" /\ lastOp.arg = "friendly"
    /\ memory[MemNPC].playerReputation < -280

\* C5: the reputation starts at 0; a step changes it by -10 when it is a
\* recordPlayerHit, by -5 / +2 / +1 when it is a recordPlayerMessage with label
\* hostile or negative / friendly or positive / neutral, by one of the fixed
\* deltas or not at all for any other label, and not at all otherwise.
C5_DeltaOf(n) ==
    LET d == memory'[n].playerReputation - memory[n].playerReputation IN
    IF lastOp'.npc # n THEN d = 0
    ELSE IF lastOp'.op = "recordPlayerHit" THEN d = -10
    ELSE IF lastOp'.op = "loadMemory"
         THEN \* a new store: it starts from the persisted reputation, or from 0
              memory'[n].playerReputation =
                  IF localStorage[n].present
                     /\ "playerReputation" \in DOMAIN JSONParse(localStorage[n])
                  THEN JSONParse(localStorage[n]).playerReputation ELSE 0
    ELSE IF lastOp'.op = "recordPlayerMessage"
         THEN IF lastOp'.arg \in {"hostile", "negative"} THEN d = -5
              ELSE IF lastOp'.arg \in {"friendly", "positive"} THEN d = 2
              ELSE IF lastOp'.arg = "neutral" THEN d = 1
              ELSE d \in {-5, 0, 1, 2}
    ELSE d = 0

C5_FixedDeltas ==
    /\ \A n \in NPCs : memory[n].playerReputation = 0
    /\ [][\A n \in NPCs : C5_DeltaOf(n)]_vars

\* a neutral message moved a fresh store from 0 to +1, then a hit to -9
C5_Witness ==
    /\ scripted = 0 /\ steps = 2
    /\ lastOp.op = "recordPlayerHit"
    /\ memory[MemNPC].playerReputation = -9

\* e.k reads undefined: the key is missing or holds undefined
C11_IsUndefined(e, k) == k \notin DOMAIN e \/ (k \in UndefinableKeys /\ e[k] = Undefined)

\* every key reads the same in both entries
C11_SameEntry(a, b) ==
    \A k \in DOMAIN a \cup DOMAIN b :
        IF k \in DOMAIN a /\ k \in DOMAIN b THEN a[k] = b[k]
        ELSE C11_IsUndefined(a, k) /\ C11_IsUndefined(b, k)

C11_SameLog(x, y) == Len(x) = Len(y) /\ \A i \in DOMAIN x : C11_SameEntry(x[i], y[i])

C12_Field(item, k) == IF k \in DOMAIN JSONParse(item) THEN <<JSONParse(item)[k]>> ELSE <<>>

\* C12: a construction that finds a persisted record leaves the record's logs
\* and reputation as they were, and a second construction right after it (no
\* mutation in between, any personality argument) gives the same in-memory
\* state as the first.
C12_LoadIdempotent ==
    [][lastOp'.op = "loadMemory" /\ localStorage[MemNPC].present =>
         /\ localStorage'[MemNPC].present
         /\ \A k \in {"conversationHistory", "actionMemory", "playerInteractions",
                       "playerReputation"} :
                C12_Field(localStorage'[MemNPC], k) = C12_Field(localStorage[MemNPC], k)
         /\ lastOp.op = "loadMemory" => memory'[MemNPC] = memory[MemNPC]]_vars

\* two constructions in a row from a record that holds interactions, the
\* second with another personality argument than the first
C12_Witness ==
    /\ lastOp.op = "loadMemory" /\ lastOp.arg = Personality(2)
    /\ steps = 3
    /\ localStorage[MemNPC].present
    /\ Len(memory[MemNPC].playerInteractions) >= 1
    /\ memory[MemNPC].personality = Personality(1)
    /\ memory[MemNPC] = NewNPCMemory(MemNPC, Personality(1), localStorage[MemNPC]).mem

\* the logs as they were, possibly without their oldest entries
C15_KeptLog(old, new) ==
    \E d \in 0..Len(old) :
        /\ Len(new) >= Len(old) - d
        /\ \A i \in 1..(Len(old) - d) : new[i] = old[i + d]

\* C15: when recordPlayerHit, recordPlayerMessage, setPersonality, a persisted
\* addConversation or a persisted addAction has returned and its write to
\* localStorage succeeded, the persisted record is the JSON text of the whole
\* in-memory structure; and no call other than the construction reads the
\* store back from localStorage: the entries it keeps are the very objects
\* it held, not the ones the text denotes.
C15_PersistedIsMemory ==
    [][/\ (/\ lastOp'.writable
           /\ \/ lastOp'.op \in {"recordPlayerHit", "recordPlayerMessage", "setPersonality"}
              \/ lastOp'.op = "addConversation" /\ lastOp'.arg = "user"
              \/ lastOp'.op = "addAction" /\ lastOp'.arg = "player")
          => localStorage'[MemNPC] = JSONStringify(memory'[MemNPC])
       /\ lastOp'.op # "loadMemory"
          => /\ C15_KeptLog(memory[MemNPC].conversationHistory,
                            memory'[MemNPC].conversationHistory)
             /\ C15_KeptLog(memory[MemNPC].actionMemory, memory'[MemNPC].actionMemory)
             /\ C15_KeptLog(memory[MemNPC].playerInteractions,
                            memory'[MemNPC].playerInteractions)]_vars

\* the third call's write succeeded; the memory holds an entry the text
\* cannot spell in full
C15_Witness ==
    /\ lastOp.op = "addAction" /\ lastOp.arg = "player" /\ lastOp.writable
    /\ steps = 3
    /\ localStorage[MemNPC] = JSONStringify(memory[MemNPC])
    /\ JSONParse(localStorage[MemNPC]) # memory[MemNPC]
    /\ Len(memory[MemNPC].playerInteractions) = 2

\* the log got one more entry, or stayed full by giving up its oldest one
C22_Appended(old, new, cap) ==
    /\ Len(new) = (IF Len(old) < cap THEN Len(old) + 1 ELSE cap)
    /\ \A i \in 1..(Len(new) - 1) : new[i] = old[i + Len(old) + 1 - Len(new)]

\* C22: a mutating call whose write to localStorage fails still has its whole
\* in-memory effect, computed from the in-memory state the earlier calls of the
\* session left (written or not): the log entry is appended, the reputation
\* moves by the call's delta, the personality is replaced.  The persisted
\* record stays as it was.
C22_FailedWriteKeepsEffect ==
    [][~lastOp'.writable =>
         LET old == memory[MemNPC]
             new == memory'[MemNPC]
         IN /\ localStorage' = localStorage
            /\ lastOp'.op = "recordPlayerHit" =>
                  /\ new.playerReputation = old.playerReputation - 10
                  /\ C22_Appended(old.playerInteractions, new.playerInteractions, 50)
                  /\ new.playerInteractions[Len(new.playerInteractions)].type = "hit"
                  /\ C22_Appended(old.actionMemory, new.actionMemory, 30)
                  /\ new.actionMemory[Len(new.actionMemory)].action = "player_hit"
                  /\ new.conversationHistory = old.conversationHistory
            /\ lastOp'.op = "recordPlayerMessage" =>
                  /\ new.playerReputation =
                        old.playerReputation + ReputationChange(lastOp'.arg)
                  /\ C22_Appended(old.playerInteractions, new.playerInteractions, 50)
                  /\ new.playerInteractions[Len(new.playerInteractions)].type = "message"
                  /\ C22_Appended(old.conversationHistory, new.conversationHistory, 20)
                  /\ new.conversationHistory[Len(new.conversationHistory)].content = "hello"
                  /\ new.actionMemory = old.actionMemory
            /\ lastOp'.op = "addConversation" /\ lastOp'.arg = "user" =>
                  /\ C22_Appended(old.conversationHistory, new.conversationHistory, 20)
                  /\ new.playerReputation = old.playerReputation
            /\ lastOp'.op = "addAction" /\ lastOp'.arg = "player" =>
                  /\ C22_Appended(old.actionMemory, new.actionMemory, 30)
                  /\ new.playerReputation = old.playerReputation
            /\ lastOp'.op = "setPersonality" =>
                  /\ new.personality = lastOp'.arg
                  /\ new.playerReputation = old.playerReputation
                  /\ new.playerInteractions = old.playerInteractions]_vars

\* three calls in a row failed to write; the third built on what the first
\* two left in memory, and the slot still holds the record of the session before
C22_Witness ==
    /\ steps = 3
    /\ lastOp.op = "recordPlayerMessage" /\ lastOp.arg = "hostile" /\ ~lastOp.writable
    /\ memory[MemNPC].playerReputation = -25
    /\ Len(memory[MemNPC].playerInteractions) = 3
    /\ Len(memory[MemNPC].actionMemory) = 2
    /\ localStorage[MemNPC] = LegacyRecord(MemNPC)

\* the last k entries of the log (all of them when it holds fewer), in their order
C26_MostRecent(shown, log, k, key) ==
    LET m == IF Len(log) < k THEN Len(log) ELSE k IN
    /\ Len(shown) = m
    /\ \A i \in 1..m : shown[i] = Prop(log[Len(log) - m + i], key)

\* the claim as stated, with 2 actions: the context of a decision cycle holds
\* the reputation, the 3 most recent player interactions and the 2 most
\* recent recorded player actions
C26_TwoActions ==
    [][lastOp'.op = "getContext" =>
         LET m == memory[MemNPC]
             prompt == lastOp'.prompt
         IN /\ prompt.playerReputation = m.playerReputation
            /\ C26_MostRecent([i \in DOMAIN prompt.interactions |-> prompt.interactions[i].type],
                              m.playerInteractions, 3, "type")
            /\ C26_MostRecent(prompt.actions, m.actionMemory, 2, "action")]_vars

\* C26 (amended): the context assembled for a decision cycle holds the current
\* reputation, exactly the 3 most recent player interactions (type and
\* impact) and exactly the 3 most recent recorded player actions, all of them
\* when fewer exist, in recording order.
C26_ThreeActions ==
    [][lastOp'.op = "getContext" =>
         LET m == memory[MemNPC]
             prompt == lastOp'.prompt
         IN /\ prompt.playerReputation = m.playerReputation
            /\ C26_MostRecent([i \in DOMAIN prompt.interactions |-> prompt.interactions[i].type],
                              m.playerInteractions, 3, "type")
            /\ C26_MostRecent([i \in DOMAIN prompt.interactions |-> prompt.interactions[i].impact],
                              m.playerInteractions, 3, "impact")
            /\ C26_MostRecent(prompt.actions, m.actionMemory, 3, "action")]_vars

\* the context was built from full logs whose last interactions are a hit,
\* a friendly message and a hit: the prompt shows these three and three actions
C26_Witness ==
    /\ lastOp.op = "getContext"
    /\ scripted = 50 /\ steps = 3
    /\ Len(memory[MemNPC].playerInteractions) = 50
    /\ Len(memory[MemNPC].actionMemory) = 30
    /\ lastOp.prompt.interactions =
          <<[type |-> "hit", impact |-> "hostile"],
            [type |-> "message", impact |-> "friendly"],
            [type |-> "hit", impact |-> "hostile"]>>
    /\ lastOp.prompt.actions = <<"player_hit", "player_hit", "player_hit">>
    /\ lastOp.prompt.playerReputation = memory[MemNPC].playerReputation

----------------------------------------------------------------------------
(* Claims about the agent runtime (Spec, FairSpec) *)

AgentOf(n) == <<isProcessing[n], pc[n], event[n], response[n], trace[n], active[n]>>

\* the step delivers an event to processEvent of n
Delivers(n) ==
    \/ lastOp'.op = "checkEnvironmentChanges"
    \/ lastOp'.op = "sendToNearbyNPCs" /\ n \in lastOp'.targets
    \/ lastOp'.op = "onHit" /\ lastOp'.npc = n

\* C1: for every agent at most one processEvent invocation is past the guard at
\* any time: the flag isProcessing is set exactly while one is, an event delivered
\* while it is set returns at once and leaves the agent as it is, and so at most
\* one request to the reasoning service is outstanding per agent.
C1_OneDecisionCycleInFlight ==
    /\ [](\A n \in NPCs :
            /\ active[n] <= 1
            /\ isProcessing[n] <=> active[n] = 1
            /\ pc[n] \in {"sentiment", "gemini", "exec"} <=> isProcessing[n])
    /\ [][\A n \in NPCs : isProcessing[n] /\ Delivers(n) => AgentOf(n)' = AgentOf(n)]_vars

\* a hit event reaches an agent that waits for the reasoning service on an
\* earlier event, and is dropped
C1_Witness ==
    /\ lastOp.op = "onHit"
    /\ isProcessing[lastOp.npc]
    /\ pc[lastOp.npc] = "gemini"
    /\ event[lastOp.npc].type = "environment_change"
    /\ active[lastOp.npc] = 1

\* C2: every processEvent call that passes the guard releases it in the end,
\* whichever way the cycle ends, given that every request to a service returns
\* or fails; with the guard released the agent is idle and the next event
\* delivered to it passes the guard.
C2_GuardReleased ==
    /\ \A n \in NPCs : isProcessing[n] ~> ~isProcessing[n]
    /\ [](\A n \in NPCs :
            ~isProcessing[n] =>
               /\ pc[n] = "idle"
               /\ ProcessEvent(Agent(n), Store(n), "hit",
                               [thrower |-> PlayerThrower], TRUE).isProcessing)

\* the cycle on a player query has ended and released the guard: the hit that
\* comes after it passes the guard
C2_Witness ==
    /\ lastOp.op = "onHit"
    /\ pc[lastOp.npc] = "gemini"
    /\ event[lastOp.npc].type = "hit"
    /\ Len(memory[lastOp.npc].conversationHistory) = 1

Last(seq) == seq[Len(seq)]

\* the step belongs to the decision cycle of n and comes after the sentiment step
LaterCycleStep(n) ==
    /\ lastOp'.op \in {"callGemini", "executeTool", "executeResponse"}
    /\ lastOp'.npc = n

\* C6: a player message classified hostile, delivered by processEvent as a player
\* query, lowers the reputation by 5 and adds exactly one interaction (type
\* message, impact hostile) and exactly one conversation entry (the message);
\* the rest of the cycle leaves the memory alone.
C6_HostileMessage ==
    [][\A n \in NPCs :
         /\ pc[n] = "sentiment" /\ lastOp'.op = "recordPlayerMessage"
               /\ lastOp'.npc = n /\ lastOp'.arg = "hostile"
            => /\ memory'[n].playerReputation = memory[n].playerReputation - 5
               /\ Len(memory'[n].playerInteractions) = Len(memory[n].playerInteractions) + 1
               /\ Last(memory'[n].playerInteractions).type = "message"
               /\ Last(memory'[n].playerInteractions).impact = "hostile"
               /\ Len(memory'[n].conversationHistory) = Len(memory[n].conversationHistory) + 1
               /\ Last(memory'[n].conversationHistory).role = "user"
               /\ Last(memory'[n].conversationHistory).content = event[n].data.transcript
               /\ memory'[n].actionMemory = memory[n].actionMemory
         /\ LaterCycleStep(n) /\ event[n].type = "player_query" => memory'[n] = memory[n]
      ]_vars

C6_Witness ==
    /\ lastOp.op = "recordPlayerMessage"
    /\ lastOp.arg = "hostile"
    /\ memory[lastOp.npc].playerReputation = -5
    /\ Len(memory[lastOp.npc].playerInteractions) = 1
    /\ Len(memory[lastOp.npc].conversationHistory) = 1
    /\ pc[lastOp.npc] = "gemini"

\* C7: a projectile thrown by the player that hits an NPC lowers that NPC's
\* reputation by 10 and adds one interaction of type hit, whether or not the hit
\* event passes the guard, and whatever the reasoning call on it does afterwards.
C7_PlayerHitRecorded ==
    [][\A n \in NPCs :
         /\ lastOp'.op = "onHit" /\ lastOp'.npc = n /\ lastOp'.arg = "player"
            => /\ memory'[n].playerReputation = memory[n].playerReputation - 10
               /\ Len(memory'[n].playerInteractions) = Len(memory[n].playerInteractions) + 1
               /\ Last(memory'[n].playerInteractions).type = "hit"
               /\ Last(memory'[n].playerInteractions).reputationChange = -10
         /\ lastOp'.op \in {"callGemini", "executeTool", "executeResponse"}
               /\ lastOp'.npc = n /\ event[n].type = "hit"
            => memory'[n] = memory[n]
      ]_vars

\* the player's rock hits an NPC whose guard is held by an earlier event
C7_Witness ==
    /\ lastOp.op = "onHit"
    /\ lastOp.arg = "player"
    /\ isProcessing[lastOp.npc]
    /\ event[lastOp.npc].type # "hit"
    /\ memory[lastOp.npc].playerReputation = -10
    /\ Last(memory[lastOp.npc].playerInteractions).type = "hit"

\* C8: when the reasoning service answers with an empty candidate list and no
\* function calls, callGemini returns null and processEvent ends without an
\* exception: no tool runs, nothing is spoken, the memory is as it was and the
\* guard is released.
C8_EmptyReply ==
    [][\A n \in NPCs :
         lastOp'.op = "callGemini" /\ lastOp'.npc = n /\ lastOp'.arg = "empty_candidates"
         => /\ lastOp'.outcome = "null"
            /\ ~isProcessing'[n]
            /\ pc'[n] = "idle"
            /\ trace'[n] = <<>>
            /\ UNCHANGED <<worldVars, storeVars, playerRocks>>
      ]_vars

C8_Witness ==
    /\ lastOp.op = "callGemini"
    /\ lastOp.arg = "empty_candidates"
    /\ lastOp.outcome = "null"
    /\ ~isProcessing[lastOp.npc]
    /\ currentSpeech[lastOp.npc] = NoSpeech

\* C13: when building the context, the reasoning request or the execution of
\* the response throws during a player-query cycle, processEvent still ends
\* normally (guard released, no invocation left in flight) and the reputation,
\* the three logs and the persisted record are exactly what recordPlayerMessage
\* made them: the message is there once, nothing is taken back or added.
C13_FailureKeepsRecord ==
    [][\A n \in NPCs :
         \* building the context throws, right after recordPlayerMessage
         /\ pc[n] = "sentiment" /\ lastOp'.op = "recordPlayerMessage" /\ lastOp'.npc = n
               /\ pc'[n] = "idle"
            => /\ ~isProcessing'[n] /\ active'[n] = 0
               /\ Len(memory'[n].playerInteractions) = Len(memory[n].playerInteractions) + 1
               /\ memory'[n] = RecordPlayerMessage(Store(n), event[n].data.transcript,
                                    Last(memory'[n].playerInteractions).sentiment).mem
               /\ localStorage'[n] = JSONStringify(memory'[n])
         \* the reasoning request or the execution of the response throws
         /\ event[n].type = "player_query" /\ lastOp'.npc = n
               /\ \/ lastOp'.op = "callGemini" /\ lastOp'.outcome = "throw"
                  \/ lastOp'.op \in {"executeTool", "executeResponse"} /\ lastOp'.arg = "throw"
            => /\ ~isProcessing'[n] /\ pc'[n] = "idle" /\ active'[n] = 0
               /\ memory'[n] = memory[n]
               /\ localStorage'[n] = localStorage[n]
      ]_vars

\* the only stimulus was a player message; the reasoning request for it threw
\* and the message is in the logs once
C13_Witness ==
    /\ steps = 1
    /\ lastOp.op = "callGemini" /\ lastOp.outcome = "throw"
    /\ pc[lastOp.npc] = "idle" /\ ~isProcessing[lastOp.npc]
    /\ Len(memory[lastOp.npc].playerInteractions) = 1
    /\ memory[lastOp.npc].playerInteractions[1].type = "message"
    /\ Len(memory[lastOp.npc].conversationHistory) = 1
    /\ localStorage[lastOp.npc] = JSONStringify(memory[lastOp.npc])

\* C23: the agents of different NPCs are independent.  Their memories are
\* stored under different keys; an event delivered to an agent whose own guard
\* is free is taken up even while another agent's cycle is in flight; and a
\* step of one agent's cycle or a hit on one NPC leaves the reputation, the
\* logs and the persisted record of every other NPC as they are.
C23_AgentsIndependent ==
    /\ \A a \in NPCs : \A b \in NPCs \ {a} : StorageKey(a) # StorageKey(b)
    /\ [][\A a \in NPCs : \A b \in NPCs \ {a} :
            /\ isProcessing[a] /\ ~isProcessing[b] /\ Delivers(b)
               => IF lastOp'.op = "sendToNearbyNPCs"
                  THEN /\ isProcessing'[b] /\ active'[b] = 1 /\ pc'[b] = "sentiment"
                       /\ event'[b].type = "player_query"
                  ELSE IF lastOp'.contextOk
                  THEN /\ isProcessing'[b] /\ active'[b] = 1 /\ pc'[b] = "gemini"
                       /\ event'[b].type = (IF lastOp'.op = "onHit" THEN "hit"
                                            ELSE "environment_change")
                  ELSE ~isProcessing'[b] /\ pc'[b] = "idle"
            /\ lastOp'.npc = a
               => memory'[b] = memory[b] /\ localStorage'[b] = localStorage[b]
            /\ lastOp'.npc = 0 => memory' = memory /\ localStorage' = localStorage
         ]_vars

\* while agent 1 waits for the reasoning service on a hostile message, agent 2
\* took up a message of its own and recorded it: each memory holds its own
C23_Witness ==
    /\ lastOp.op = "recordPlayerMessage" /\ lastOp.npc = 2 /\ lastOp.arg = "neutral"
    /\ pc[1] = "gemini" /\ pc[2] = "gemini"
    /\ event[1].type = "player_query"
    /\ memory[1].playerReputation = -5 /\ memory[2].playerReputation = 1
    /\ localStorage[1] = JSONStringify(memory[1])
    /\ localStorage[2] = JSONStringify(memory[2])
    /\ localStorage[1] # localStorage[2]

\* C24: a processEvent call that finds the guard set does nothing.  The agent
\* (guard, in-flight event, outstanding request, response) and the world are
\* as before and so is the memory, except for what NPC.onHit itself recorded
\* before it called processEvent; the text of a dropped player query is not
\* recorded.  The dropped event is not kept: when the cycle in flight ends
\* the agent holds no event, an idle agent starts a cycle only on a delivery
\* and then on the event delivered, and what a cycle records is the text of
\* the event it accepted.
C24_DroppedEventIsNoOp ==
    [][\A n \in NPCs :
         /\ isProcessing[n] /\ Delivers(n)
            => /\ AgentOf(n)' = AgentOf(n)
               /\ UNCHANGED <<rocks, targetPosition, currentSpeech, rockCollected,
                              lampOn, timers, playerRocks>>
               /\ IF lastOp'.op = "onHit"
                  THEN /\ memory'[n] = OnHitStore(n, [id |-> lastOp'.arg, type |-> "any"]).mem
                       /\ memory'[n].conversationHistory = memory[n].conversationHistory
                  ELSE /\ memory'[n] = memory[n]
                       /\ localStorage'[n] = localStorage[n]
                       /\ projectiles' = projectiles
         /\ pc[n] # "idle" /\ pc'[n] = "idle"
            => event'[n] = NoEvent /\ response'[n] = NoResponse /\ ~isProcessing'[n]
         /\ pc[n] = "idle" /\ pc'[n] # "idle"
            => /\ Delivers(n)
               /\ event'[n].type = (CASE lastOp'.op = "sendToNearbyNPCs" -> "player_query"
                                       [] lastOp'.op = "onHit" -> "hit"
                                       [] OTHER -> "environment_change")
               /\ lastOp'.op = "sendToNearbyNPCs"
                  => event'[n].data.transcript = lastOp'.arg
         /\ lastOp'.op = "recordPlayerMessage" /\ lastOp'.npc = n
            => /\ Last(memory'[n].conversationHistory).content = event[n].data.transcript
               /\ Last(memory'[n].playerInteractions).message = event[n].data.transcript
         /\ (\E i \in DOMAIN memory'[n].conversationHistory :
                 memory'[n].conversationHistory[i] \notin
                    {memory[n].conversationHistory[j] : j \in DOMAIN memory[n].conversationHistory})
            => lastOp'.op = "recordPlayerMessage" /\ lastOp'.npc = n
      ]_vars

\* the player's second utterance reached an agent that was still waiting for
\* the reasoning service on the first: the first is recorded, the second is not
C24_Witness ==
    /\ lastOp.op = "sendToNearbyNPCs" /\ lastOp.arg = Transcript(1)
    /\ lastOp.targets = {1}
    /\ pc[1] = "gemini" /\ isProcessing[1] /\ active[1] = 1
    /\ event[1].data = [transcript |-> Transcript(0)]
    /\ Len(memory[1].conversationHistory) = 1
    /\ memory[1].conversationHistory[1].content = Transcript(0)
    /\ memory[1].playerReputation = -5

\* C27: a reply of the reasoning service with a status outside 2xx makes
\* callGemini throw; processEvent catches the error and ends the cycle: the
\* guard is released, no function call is executed, nothing is spoken, and
\* movement targets, inventories, rocks, lamps, timers and projectiles are as
\* they were.
C27_HttpErrorIsNoOp ==
    [][\A n \in NPCs :
         lastOp'.op = "callGemini" /\ lastOp'.npc = n /\ lastOp'.arg = "http_error"
         => /\ lastOp'.outcome = "throw"
            /\ ~isProcessing'[n] /\ pc'[n] = "idle" /\ active'[n] = 0
            /\ trace'[n] = <<>> /\ response'[n] = NoResponse
            /\ currentSpeech' = currentSpeech
            /\ targetPosition' = targetPosition
            /\ rocks' = rocks /\ playerRocks' = playerRocks
            /\ rockCollected' = rockCollected
            /\ lampOn' = lampOn
            /\ timers' = timers
            /\ projectiles' = projectiles
      ]_vars

\* the reasoning request on an environment change came back with an error
\* status while the other agent had spoken: the world shows that speech only
C27_Witness ==
    /\ lastOp.op = "callGemini" /\ lastOp.arg = "http_error" /\ lastOp.npc = 2
    /\ lastOp.outcome = "throw"
    /\ ~isProcessing[2] /\ pc[2] = "idle"
    /\ currentSpeech[2] = NoSpeech /\ targetPosition[2] = NoTarget
    /\ currentSpeech[1] = Spoken(<<"hi">>)
    /\ memory[2].playerInteractions = <<>>

\* C28: a player-query cycle first asks for the sentiment and records nothing
\* yet; the step that takes it from the sentiment request to the reasoning
\* request records the message and then builds the context, so the context
\* and the prompt sent to the reasoning service hold the reputation with this
\* message's delta applied and end with this message's interaction; and a
\* reasoning request for a player query is only ever reached that way.
C28_ContextAfterRecord ==
    [][\A n \in NPCs :
         /\ pc[n] = "idle" /\ pc'[n] # "idle" /\ event'[n].type = "player_query"
            => pc'[n] = "sentiment" /\ memory'[n] = memory[n]
         /\ pc'[n] = "gemini" /\ pc[n] # "gemini" /\ event'[n].type = "player_query"
            => pc[n] = "sentiment"
         /\ pc[n] = "sentiment" /\ pc'[n] = "gemini"
            => LET context == event'[n].context
                   delta == ReputationChange(lastOp'.arg)
                   shown == Last(context.recentPlayerInteractions)
               IN /\ lastOp'.op = "recordPlayerMessage" /\ lastOp'.npc = n
                  /\ context.playerReputation = memory[n].playerReputation + delta
                  /\ context.playerReputation = memory'[n].playerReputation
                  /\ Len(memory'[n].playerInteractions) =
                        Len(memory[n].playerInteractions) + 1
                  /\ shown = Last(memory'[n].playerInteractions)
                  /\ shown.type = "message"
                  /\ shown.message = event[n].data.transcript
                  /\ shown.reputationChange = delta
                  /\ Last(context.recentConversations).content = event[n].data.transcript
                  /\ event'[n].prompt.playerReputation = memory[n].playerReputation + delta
                  /\ Last(event'[n].prompt.interactions) =
                        [type |-> "message", impact |-> lastOp'.arg]
      ]_vars

\* the player hit the NPC and then spoke to it in a hostile way: the context
\* of the reasoning request shows the hit, the message and reputation -15
C28_Witness ==
    /\ lastOp.op = "recordPlayerMessage" /\ lastOp.arg = "hostile"
    /\ pc[lastOp.npc] = "gemini"
    /\ event[lastOp.npc].context.playerReputation = -15
    /\ Len(event[lastOp.npc].context.recentPlayerInteractions) = 2
    /\ event[lastOp.npc].prompt.interactions =
          <<[type |-> "hit", impact |-> "hostile"], [type |-> "message", impact |-> "hostile"]>>

\* C14: whatever the sentiment service answers, processEvent gets a sentiment
\* that carries a label and recordPlayerMessage is executed with it: the step
\* that takes a player query out of the sentiment request appends the message
\* to the conversation log and an interaction whose impact is a label.
C14_SentimentAlwaysLabelled ==
    [][\A n \in NPCs :
         pc[n] = "sentiment" /\ pc'[n] # "sentiment"
         => /\ lastOp'.op = "recordPlayerMessage"
            /\ Len(memory'[n].conversationHistory) = Len(memory[n].conversationHistory) + 1
            /\ Len(memory'[n].playerInteractions) = Len(memory[n].playerInteractions) + 1
            /\ Last(memory'[n].playerInteractions).impact # Undefined
      ]_vars

----------------------------------------------------------------------------
(* Claims about the tool dispatcher (ToolSpec) *)

ScenarioD == <<MoveTo55, UnknownTool, SpeakHi>>

\* C9: the function calls of a response are executed one at a time in the order
\* listed; a call whose name is no tool is skipped without any effect on the
\* world, and the calls before and after it are executed all the same.  For
\* [move_to, nonexistent_tool, speak] the target is set, then the message spoken.
C9_CallsInOrder ==
    /\ [](\A n \in NPCs :
            /\ Len(trace[n]) <= Len(response[n].functionCalls)
            /\ \A i \in 1..Len(trace[n]) :
                  /\ trace[n][i].call = response[n].functionCalls[i].name
                  /\ trace[n][i].call \notin ToolNames => trace[n][i].effects = <<>>
            /\ response[n].functionCalls = ScenarioD /\ Len(trace[n]) = 3
               => /\ trace[n][1].effects =
                        <<[e |-> "setTargetPosition", position |-> [x |-> 5, z |-> 5]]>>
                  /\ trace[n][3].effects = <<[e |-> "speak", message |-> <<"hi">>]>>
                  /\ targetPosition[n] = [x |-> 5, z |-> 5]
                  /\ currentSpeech[n] = Spoken(<<"hi">>))
    /\ [][\A n \in NPCs :
            /\ pc[n] = "exec" /\ pc'[n] = "exec"
               => /\ Len(trace'[n]) = Len(trace[n]) + 1
                  /\ SubSeq(trace'[n], 1, Len(trace[n])) = trace[n]
                  /\ Last(trace'[n]).call \notin ToolNames => UNCHANGED worldVars
            /\ pc[n] = "exec" /\ pc'[n] = "idle"
               => Len(trace[n]) = Len(response[n].functionCalls)
         ]_vars

C9_Witness ==
    /\ response[ToolNPC].functionCalls = ScenarioD
    /\ Len(trace[ToolNPC]) = 3
    /\ trace[ToolNPC][2] = [call |-> "nonexistent_tool", effects |-> <<>>]
    /\ targetPosition[ToolNPC] = [x |-> 5, z |-> 5]
    /\ currentSpeech[ToolNPC] = Spoken(<<"hi">>)

\* C10: throw_rock executed by an NPC that holds no rock creates no projectile,
\* leaves the NPC's rock count at 0 and makes the NPC say that it has no rocks.
C10_ThrowWithoutRock ==
    [][\A n \in NPCs :
         /\ pc[n] = "exec" /\ pc'[n] = "exec" /\ rocks[n] = 0
         /\ response[n].functionCalls[Len(trace[n]) + 1].name = "throw_rock"
         => /\ projectiles' = projectiles
            /\ rocks'[n] = 0
            /\ currentSpeech'[n] = Spoken(NoRocksToThrow)
            /\ Last(trace'[n]).effects = <<[e |-> "speak", message |-> NoRocksToThrow]>>
      ]_vars

C10_Witness ==
    /\ lastOp.op = "executeTool"
    /\ lastOp.arg = "throw_rock"
    /\ Last(response[ToolNPC].functionCalls) = ThrowAt("2")
    /\ Len(trace[ToolNPC]) = Len(response[ToolNPC].functionCalls)
    /\ \A r \in Rocks : ~rockCollected[r]
    /\ rocks[ToolNPC] = 0
    /\ projectiles = <<>>
    /\ currentSpeech[ToolNPC] = Spoken(NoRocksToThrow)

\* the call the loop of executeResponse takes next
C16_Call(n) == response[n].functionCalls[Len(trace[n]) + 1]

\* the tool the call names ends in an exception
C16_Throws(n, call) == \E in \in ToolInputs(call) : Dispatch(n, World(n), call, in).threw

\* C16: a function call whose tool throws (move_to with a coordinate that is
\* no number) changes nothing and does not end the response: the loop goes on
\* to the next call, every call of the response is executed in the order
\* listed before the response ends, and the free text of the response is
\* spoken after them.
C16_ToolExceptionContained ==
    [][\A n \in NPCs :
         /\ pc[n] = "exec" /\ Len(trace[n]) < Len(response[n].functionCalls)
               /\ C16_Throws(n, C16_Call(n))
            => /\ pc'[n] = "exec" /\ isProcessing'[n]
               /\ response'[n] = response[n]
               /\ trace'[n] = Append(trace[n], [call |-> C16_Call(n).name, effects |-> <<>>])
               /\ UNCHANGED worldVars
         /\ pc[n] = "exec" /\ pc'[n] = "idle"
            => /\ Len(trace[n]) = Len(response[n].functionCalls)
               /\ \A i \in 1..Len(trace[n]) :
                     trace[n][i].call = response[n].functionCalls[i].name
               /\ Trim(response[n].text.w) # <<>>
                  => /\ lastOp'.op = "executeResponse" /\ lastOp'.arg = "speak"
                     /\ currentSpeech'[n] = Spoken(response[n].text.w)
      ]_vars

\* move_to threw between two calls that took effect, and the text was spoken
C16_Witness ==
    /\ lastOp.op = "executeTool" /\ lastOp.arg = "speak"
    /\ response[ToolNPC].functionCalls = <<MoveTo55, MoveToText, SpeakHi>>
    /\ response[ToolNPC].text = Text(<<"hi">>)
    /\ Len(trace[ToolNPC]) = 3
    /\ trace[ToolNPC][2] = [call |-> "move_to", effects |-> <<>>]
    /\ targetPosition[ToolNPC] = [x |-> 5, z |-> 5]
    /\ currentSpeech[ToolNPC] = Spoken(<<"hi">>)

\* C17: a function call that lacks an argument its tool requires (move_to
\* without x or z, speak without message, throw_rock without target_id) is
\* skipped: it sets no movement target, speaks nothing and issues no
\* projectile, and the loop goes on to the next call.
C17_MissingArgumentSkipped ==
    [][\A n \in NPCs :
         /\ pc[n] = "exec" /\ Len(trace[n]) < Len(response[n].functionCalls)
         /\ RequiredArgs(C16_Call(n).name) \ DOMAIN C16_Call(n).args # {}
         => /\ pc'[n] = "exec"
            /\ Len(trace'[n]) = Len(trace[n]) + 1
            /\ targetPosition'[n] = targetPosition[n]
            /\ currentSpeech'[n] = currentSpeech[n]
            /\ projectiles' = projectiles
      ]_vars

\* C18: throw_rock executed by an NPC that holds n >= 1 rocks either issues a
\* projectile, and then exactly one, thrown by that NPC, is added and the NPC
\* holds n - 1 rocks; or it adds no projectile and the NPC holds n rocks when
\* the call returns.  A target id that is no number, that names no NPC or that
\* names the thrower, and a target that is too close, are of the second kind.
C18_ThrowAccounting ==
    [][\A n \in NPCs :
         /\ pc[n] = "exec" /\ pc'[n] = "exec" /\ rocks[n] >= 1
         /\ C16_Call(n).name = "throw_rock"
         => /\ \/ /\ projectiles' = Append(projectiles, NPCThrower(n))
                  /\ rocks'[n] = rocks[n] - 1
               \/ /\ projectiles' = projectiles
                  /\ rocks'[n] = rocks[n]
            /\ \/ C16_Call(n) \in {ThrowNoArgs, ThrowAt("7"), ThrowAt(ToString(n))}
               \/ Last(trace'[n]).effects = <<[e |-> "speak", message |-> TargetTooClose]>>
               => projectiles' = projectiles /\ rocks'[n] = rocks[n]
      ]_vars

\* a throw refused because the target was too close gave the rock back, and the
\* next throw used it
C18_Witness ==
    /\ response[ToolNPC].functionCalls = <<ThrowAt("2"), ThrowAt("player")>>
    /\ Len(trace[ToolNPC]) = 2
    /\ trace[ToolNPC][1].effects = <<[e |-> "speak", message |-> TargetTooClose]>>
    /\ trace[ToolNPC][2].effects = <<[e |-> "throwRock", thrower |-> NPCThrower(ToolNPC)]>>
    /\ projectiles = <<NPCThrower(ToolNPC)>>
    /\ rocks[ToolNPC] = 0

\* C19: what an NPC says is never written to its memory: a speak call, the
\* spoken free text of a response and addConversation with a role other than
\* user leave the conversation log and the persisted record as they are, and
\* in every reachable state every entry of the conversation log has role user.
C19_UtterancesNotPersisted ==
    /\ [](\A n \in NPCs :
            /\ \A i \in 1..Len(memory[n].conversationHistory) :
                  memory[n].conversationHistory[i].role = "user"
            /\ AddConversation(Store(n), "assistant", <<"hi">>, NullSentiment) = Store(n))
    /\ [][\A n \in NPCs :
            lastOp'.op \in {"executeTool", "executeResponse"} /\ lastOp'.npc = n
            => /\ memory'[n].conversationHistory = memory[n].conversationHistory
               /\ localStorage'[n] = localStorage[n]
         ]_vars

\* the NPC has spoken through the speak tool and through the free text; its
\* conversation log holds the player's message only
C19_Witness ==
    /\ lastOp.op = "executeResponse" /\ lastOp.arg = "speak"
    /\ currentSpeech[ToolNPC] = Spoken(<<"hi">>)
    /\ timers = <<>> /\ rocks[ToolNPC] = 0 /\ targetPosition[ToolNPC] = NoTarget
    /\ Len(memory[ToolNPC].conversationHistory) = 1
    /\ memory[ToolNPC].conversationHistory[1].content = "hello"

\* C20: executing a function call, whatever its name, leaves the action log
\* as it is; every entry of the action log is one recordPlayerHit appended.
C20_ToolsLeaveActionLog ==
    /\ [](\A n \in NPCs :
            \A i \in 1..Len(memory[n].actionMemory) :
               memory[n].actionMemory[i].action = "player_hit")
    /\ [][\A n \in NPCs :
            lastOp'.op = "executeTool" /\ lastOp'.npc = n
            => memory'[n].actionMemory = memory[n].actionMemory
         ]_vars

\* three calls were executed, one of them unknown; the action log holds the
\* one hit recorded before
C20_Witness ==
    /\ response[ToolNPC].functionCalls = <<MoveTo55, CollectRock, UnknownTool>>
    /\ Len(trace[ToolNPC]) = 3
    /\ targetPosition[ToolNPC] = [x |-> 5, z |-> 5]
    /\ memory[ToolNPC].actionMemory = <<[action |-> "player_hit", details |-> "player"]>>

----------------------------------------------------------------------------
(* Claims about construction (LoadSpec) *)

\* the slot holds nothing a store can be loaded from
C21_NoUsableState(item) ==
    \/ ~item.present
    \/ JSONParseThrows(item)
    \/ JSONParse(item) = NullMemory

\* C21: constructing an NPCMemory never throws, and when the key is absent,
\* the stored text is no valid JSON or the stored JSON is the value null, the
\* new store holds the empty structure: reputation 0 and three empty logs.
C21_ConstructionFallsBack ==
    [][lastOp'.op = "loadMemory" =>
         /\ lastOp'.outcome = "ok"
         /\ C21_NoUsableState(localStorage[MemNPC])
            => memory'[MemNPC] = EmptyMemory(MemNPC, lastOp'.arg)]_vars

----------------------------------------------------------------------------
(* Claims about the reasoning client (ReplySpec) *)

C25_Max(S) == CHOOSE x \in S : \A y \in S : y <= x
C25_Min(S) == CHOOSE x \in S : \A y \in S : x <= y

\* the texts with one space between each two of them
RECURSIVE C25_Joined(_)
C25_Joined(texts) ==
    IF Len(texts) = 0 THEN <<>>
    ELSE IF Len(texts) = 1 THEN texts[1]
    ELSE C25_Joined(SubSeq(texts, 1, Len(texts) - 1)) \o <<Space>> \o texts[Len(texts)]

\* the text from its first to its last token that is not white space
C25_Trimmed(text) ==
    LET inked == {i \in DOMAIN text : text[i] # Space} IN
    IF inked = {} THEN <<>> ELSE SubSeq(text, C25_Min(inked), C25_Max(inked))

C25_IsCall(part) == "functionCall" \in DOMAIN part
C25_IsText(part) == "text" \in DOMAIN part /\ part.text # <<>>
C25_TextOf(parts) ==
    LET textParts == SelectSeq(parts, C25_IsText)
    IN C25_Trimmed(C25_Joined([i \in DOMAIN textParts |-> textParts[i].text]))
C25_CallsOf(parts) ==
    LET callParts == SelectSeq(parts, C25_IsCall)
    IN [i \in DOMAIN callParts |-> callParts[i].functionCall]
C25_WithArgs(calls) ==
    [i \in DOMAIN calls |->
        [name |-> calls[i].name,
         args |-> IF "args" \in DOMAIN calls[i] THEN calls[i].args ELSE <<>>]]

\* C25: a reply of the nested shape is normalized to the text parts joined by
\* single spaces and trimmed, and to the function-call parts in their order,
\* a call without args getting an empty argument map; the reply of the direct
\* shape that carries the same text and the same calls is normalized to the
\* same response.
C25_ShapesNormalizeAlike ==
    [][lastOp'.op = "callGemini" /\ lastOp'.arg = "parts" =>
         LET parts == lastOp'.data.candidates[1].content.parts
             expected == [text |-> Text(C25_TextOf(parts)),
                          functionCalls |-> C25_WithArgs(C25_CallsOf(parts))]
             direct == [kind |-> "ok",
                        data |-> [shape |-> "direct", text |-> Text(C25_TextOf(parts)),
                                  functionCalls |-> C25_CallsOf(parts)]]
         IN /\ lastOp'.outcome = "response"
            /\ response'[lastOp'.npc] = expected
            /\ CallGemini(direct) = [outcome |-> "response", response |-> expected]
      ]_vars

\* a tool call of the step said the message
C30_SaidByTool(entry, speech) ==
    \E i \in DOMAIN entry.effects :
        entry.effects[i].e = "speak" /\ Spoken(entry.effects[i].message) = speech

\* C30: the free text of a response is spoken after every function call of
\* the response has been executed, in the step that ends executeResponse and
\* in no step before it, and only when it is not empty after trimming; what
\* is spoken is the text as it came.
C30_TextAfterCalls ==
    [][\A n \in NPCs :
         /\ lastOp'.op = "executeResponse" /\ lastOp'.npc = n /\ lastOp'.arg = "speak"
            => /\ pc[n] = "exec"
               /\ Len(trace[n]) = Len(response[n].functionCalls)
               /\ \A i \in DOMAIN trace[n] :
                     trace[n][i].call = response[n].functionCalls[i].name
               /\ Trim(response[n].text.w) # <<>>
               /\ currentSpeech'[n] = Spoken(response[n].text.w)
         /\ pc[n] = "exec" /\ pc'[n] = "exec"
            => /\ lastOp'.op = "executeTool"
               /\ currentSpeech'[n] # currentSpeech[n]
                  => C30_SaidByTool(Last(trace'[n]), currentSpeech'[n])
         /\ pc[n] = "exec" /\ pc'[n] = "idle" /\ lastOp'.arg # "speak"
            => currentSpeech'[n] = currentSpeech[n]
      ]_vars

\* a response of the direct shape with two calls and the text " hi": the
\* speak tool said "hi", the rock was collected, then the text was spoken
C30_Witness ==
    /\ lastOp.op = "executeResponse" /\ lastOp.arg = "speak"
    /\ pc[ToolNPC] = "idle"
    /\ rocks[ToolNPC] = 1
    /\ currentSpeech[ToolNPC] = Spoken(<<Space, "hi">>)

----------------------------------------------------------------------------
(* Claims about processEvent (EventSpec) *)

C29_CarriesText(ev) ==
    /\ ev.type = "player_query"
    /\ "transcript" \in DOMAIN ev.data
    /\ ev.data.transcript # ""

\* C29: the sentiment service is asked only on a player query that carries
\* text.  A processEvent call with a hit, an environment change, a periodic
\* event or a player query with empty or missing text that passes the guard
\* goes straight to the context and the reasoning request, and neither the
\* call nor any later step of its cycle asks for a sentiment or changes the
\* memory; no processEvent call changes the memory before its first await.
C29_SentimentOnlyForText ==
    /\ [](\A n \in NPCs : pc[n] = "sentiment" => C29_CarriesText(event[n]))
    /\ [][\A n \in NPCs :
            /\ lastOp'.op = "processEvent" /\ lastOp'.npc = n
               => /\ memory' = memory /\ localStorage' = localStorage
                  /\ ~isProcessing[n]
                        /\ ~C29_CarriesText([type |-> lastOp'.arg, data |-> lastOp'.data])
                     => /\ pc'[n] = (IF lastOp'.contextOk THEN "gemini" ELSE "idle")
                        /\ lastOp'.contextOk => event'[n].type = lastOp'.arg
            /\ pc[n] \in {"gemini", "exec"} /\ ~C29_CarriesText(event[n])
                  /\ lastOp'.op # "processEvent"
               => /\ lastOp'.op \in {"callGemini", "executeTool", "executeResponse"}
                  /\ pc'[n] # "sentiment"
                  /\ memory'[n] = memory[n]
                  /\ localStorage'[n] = localStorage[n]
         ]_vars

\* after a periodic event, a player query with empty text went through a
\* whole cycle that made the NPC speak: the memory is still empty
C29_Witness ==
    /\ steps = 2
    /\ lastOp.op = "executeResponse" /\ lastOp.arg = "speak"
    /\ pc[ToolNPC] = "idle"
    /\ currentSpeech[ToolNPC] = Spoken(<<"hi">>)
    /\ memory[ToolNPC] = EmptyMemory(ToolNPC, Personality(ToolNPC))
    /\ localStorage[ToolNPC] = Absent


----------------------------------------------------------------------------
(* Claims about what reaches the memory of a busy agent (Spec) *)

\* the processEvent call of n is suspended at one of its two requests
C31_Suspended(n) == isProcessing[n] /\ pc[n] \in {"sentiment", "gemini"}

\* the step changes the memory of n or its slot
C31_StoreChanges(n) == memory'[n] # memory[n] \/ localStorage'[n] # localStorage[n]

\* the step is the suspended call of n going on with its reply
C31_OwnStep(n) ==
    /\ lastOp'.npc = n
    /\ lastOp'.op \in {"analyzeSentiment", "recordPlayerMessage", "callGemini"}

\* C31 as stated: while the processEvent call of an agent is suspended at the
\* sentiment or the reasoning request, only that call changes the agent's
\* memory; a projectile hit arriving meanwhile changes nothing in it.
C31_InFlightStoreUntouched ==
    [][\A n \in NPCs :
         C31_Suspended(n) /\ C31_StoreChanges(n) => C31_OwnStep(n)
      ]_vars

\* C31, amended: while the call is suspended, the memory is changed by that
\* call (which records the message of its own event) and by NPC.onHit for a
\* rock the player threw, and by nothing else.  The hit is recorded at once,
\* as recordPlayerHit does it, while its event is dropped and the suspended
\* call stays where it is; a rock thrown by an NPC changes nothing.
C31_InFlightOnlyCallAndPlayerHit ==
    [][\A n \in NPCs :
         /\ C31_Suspended(n) /\ C31_StoreChanges(n)
            => \/ /\ C31_OwnStep(n)
                  /\ lastOp'.op = "recordPlayerMessage"
                  /\ pc[n] = "sentiment"
                  /\ Last(memory'[n].playerInteractions).type = "message"
                  /\ Last(memory'[n].playerInteractions).message = event[n].data.transcript
               \/ /\ lastOp'.op = "onHit" /\ lastOp'.npc = n /\ lastOp'.arg = "player"
                  /\ memory'[n] = RecordPlayerHit(Store(n), "player").mem
                  /\ localStorage'[n] = RecordPlayerHit(Store(n), "player").ls
         /\ C31_Suspended(n) /\ lastOp'.op = "onHit" /\ lastOp'.npc = n
            => /\ pc'[n] = pc[n] /\ event'[n] = event[n] /\ isProcessing'[n]
               /\ lastOp'.arg # "player" => ~C31_StoreChanges(n)
               /\ lastOp'.arg = "player" => C31_StoreChanges(n)
      ]_vars

\* the player's rock hit an NPC whose call waits for the reasoning service:
\* the hit is in the memory and in the slot, the call still waits
C31_Witness ==
    /\ lastOp.op = "onHit" /\ lastOp.arg = "player"
    /\ pc[lastOp.npc] = "gemini" /\ isProcessing[lastOp.npc]
    /\ event[lastOp.npc].type = "player_query"
    /\ Len(memory[lastOp.npc].actionMemory) = 1
    /\ localStorage[lastOp.npc] = JSONStringify(memory[lastOp.npc])
    /\ Last(memory[lastOp.npc].playerInteractions).type = "hit"


----------------------------------------------------------------------------
(* Claims about the logs over long runs (LogSpec) *)

LogNames == {"conversationHistory", "actionMemory", "playerInteractions"}

C32_Cap(log) ==
    IF log = "conversationHistory" THEN ConversationCap
    ELSE IF log = "actionMemory" THEN ActionCap
    ELSE InteractionCap

\* the text an entry of the log was given when it was appended
C32_TagOf(log, e) ==
    IF log = "conversationHistory" THEN e.content
    ELSE IF log = "actionMemory" THEN e.details
    ELSE IF e.type = "hit" THEN e.throwerId ELSE e.message

\* the texts of the entries the log holds, and of all entries ever appended to it
C32_Held(log) == [i \in DOMAIN memory[MemNPC][log] |-> C32_TagOf(log, memory[MemNPC][log][i])]
C32_Appends(log) ==
    LET all == SelectSeq(trace[MemNPC], LAMBDA t : t.log = log)
    IN [i \in DOMAIN all |-> all[i].tag]

C32_Least(a, b) == IF a <= b THEN a ELSE b

\* C32: after k appends to a log that was empty at the start, the log holds the last
\* min(k, cap) entries appended to it, in the order they were appended.
C32_KeepsMostRecent ==
    scripted = 0 =>
    \A log \in LogNames :
        LET k == Len(C32_Appends(log))
            m == C32_Least(k, C32_Cap(log))
        IN C32_Held(log) = [i \in 1..m |-> C32_Appends(log)[k - m + i]]

\* messages, hits and actions in turn until every log has lost entries: the
\* interaction log holds 50 of 53 entries, the oldest being the fourth
C32_Witness ==
    /\ scripted = 0
    /\ lastOp.op # "init" /\ lastOp.mode = "turns"
    /\ Len(C32_Appends("playerInteractions")) = InteractionCap + 3
    /\ Len(memory[MemNPC].playerInteractions) = InteractionCap
    /\ C32_Held("playerInteractions")[1] = C32_Appends("playerInteractions")[4]
    /\ Len(C32_Appends("conversationHistory")) > ConversationCap
    /\ Len(C32_Appends("actionMemory")) > ActionCap


\* the step appended an entry to the log
C39_AppendsTo(log) ==
    \E i \in (Len(trace[MemNPC]) + 1)..Len(trace'[MemNPC]) : trace'[MemNPC][i].log = log

\* C39: whatever the length of a log, after an append it holds the appended
\* entry last, before it the most recent of the entries it held, and no more
\* than its cap in all.  A store constructed on a record whose logs are longer
\* than the caps keeps them at that length until the first append to each.
C39_AppendCutsToCap ==
    [][\A log \in LogNames :
         LET old == memory[MemNPC][log]
             new == memory'[MemNPC][log]
             cap == C32_Cap(log)
         IN IF C39_AppendsTo(log)
            THEN /\ Len(new) <= cap
                 /\ Len(new) = C32_Least(Len(old) + 1, cap)
                 /\ C32_TagOf(log, Last(new)) = lastOp'.arg
                 /\ SubSeq(new, 1, Len(new) - 1) =
                       SubSeq(old, Len(old) - Len(new) + 2, Len(old))
            ELSE new = old
      ]_vars

\* the record had 51 entries in each log; the store took them all, and the
\* first addConversation cut the conversation log from 51 to 20 entries while
\* the two other logs still hold 51
C39_Witness ==
    /\ scripted = InteractionCap + 1 /\ steps = 1
    /\ lastOp.op = "addConversation"
    /\ Len(memory[MemNPC].conversationHistory) = ConversationCap
    /\ memory[MemNPC].conversationHistory[1].content = LogTag(-33)
    /\ Len(memory[MemNPC].actionMemory) = InteractionCap + 1
    /\ Len(memory[MemNPC].playerInteractions) = InteractionCap + 1

----------------------------------------------------------------------------
(* Claims about the reputation of a full log (MemSpec) *)

RECURSIVE C34_SumFrom(_, _)
\* the sum of the deltas of the entries i.. of the log
C34_SumFrom(log, i) ==
    IF i > Len(log) THEN 0 ELSE log[i].reputationChange + C34_SumFrom(log, i + 1)

C34_LogSum(n) == C34_SumFrom(memory[n].playerInteractions, 1)

\* C34: an interaction recorded into a full log pushes the oldest entry out
\* and moves the reputation by the new entry's delta alone; the delta of the
\* entry pushed out stays in the reputation, which goes on being the sum of
\* all deltas ever recorded.  A load takes the reputation from the stored
\* record as it is, whatever the stored log sums up to.
C34_EvictionKeepsReputation ==
    [][/\ /\ lastOp'.op \in {"recordPlayerHit", "recordPlayerMessage"}
          /\ Len(memory[MemNPC].playerInteractions) = InteractionCap
          => /\ memory'[MemNPC].playerInteractions =
                    Append(Tail(memory[MemNPC].playerInteractions),
                           Last(memory'[MemNPC].playerInteractions))
             /\ memory'[MemNPC].playerReputation =
                    memory[MemNPC].playerReputation
                    + Last(memory'[MemNPC].playerInteractions).reputationChange
             /\ memory'[MemNPC].playerReputation = sumDeltas'[MemNPC]
             /\ C34_LogSum(MemNPC)' =
                    C34_LogSum(MemNPC) - Head(memory[MemNPC].playerInteractions).reputationChange
                    + Last(memory'[MemNPC].playerInteractions).reputationChange
       /\ lastOp'.op = "loadMemory" /\ localStorage[MemNPC].present
          => /\ memory'[MemNPC].playerReputation = JSONParse(localStorage[MemNPC]).playerReputation
             /\ memory'[MemNPC].playerInteractions = JSONParse(localStorage[MemNPC]).playerInteractions
             /\ memory'[MemNPC].playerReputation = sumDeltas'[MemNPC]
      ]_vars

\* after the opening of 50 interactions a hit pushed the first message (+1)
\* out and the store was loaded again: the reputation is still the sum of the
\* 51 deltas, one more than the stored log sums up to
C34_Witness ==
    /\ lastOp.op = "loadMemory"
    /\ scripted = MaxPrior /\ steps = 2
    /\ Len(memory[MemNPC].playerInteractions) = InteractionCap
    /\ Last(memory[MemNPC].playerInteractions).type = "hit"
    /\ memory[MemNPC].playerReputation = 20 * NeutralDelta - 31 * HitDelta
    /\ memory[MemNPC].playerReputation = C34_LogSum(MemNPC) + NeutralDelta

\* the log after one entry was appended to it under its cap
C38_OneMore(old, new, cap) ==
    /\ new # <<>>
    /\ SubSeq(new, 1, Len(new) - 1) =
          IF Len(old) >= cap THEN SubSeq(old, Len(old) - cap + 2, Len(old)) ELSE old

\* C38: recordPlayerMessage with the label threatening lowers the reputation
\* by 5.  With a label that is none of the six known ones the reputation stays
\* and the message is recorded all the same: one interaction of type message
\* with the label as impact and delta 0, and one conversation entry.
C38_ThreateningAndUnknownLabels ==
    [][/\ lastOp'.op = "recordPlayerMessage" /\ lastOp'.arg = "threatening"
          => /\ memory'[MemNPC].playerReputation = memory[MemNPC].playerReputation - 5
             /\ Last(memory'[MemNPC].playerInteractions).reputationChange = -5
       /\ lastOp'.op = "recordPlayerMessage" /\ lastOp'.arg \notin Labels
          => /\ memory'[MemNPC].playerReputation = memory[MemNPC].playerReputation
             /\ C38_OneMore(memory[MemNPC].playerInteractions,
                            memory'[MemNPC].playerInteractions, InteractionCap)
             /\ Last(memory'[MemNPC].playerInteractions).type = "message"
             /\ Last(memory'[MemNPC].playerInteractions).impact = lastOp'.arg
             /\ Last(memory'[MemNPC].playerInteractions).reputationChange = 0
             /\ C38_OneMore(memory[MemNPC].conversationHistory,
                            memory'[MemNPC].conversationHistory, ConversationCap)
             /\ Last(memory'[MemNPC].conversationHistory).role = "user"
             /\ Last(memory'[MemNPC].conversationHistory).content =
                   Last(memory'[MemNPC].playerInteractions).message
      ]_vars

\* a threatening message, then one labelled sarcastic: the reputation is -5,
\* both messages are in both logs
C38_Witness ==
    /\ lastOp.op = "recordPlayerMessage" /\ lastOp.arg = OtherLabel
    /\ memory[MemNPC].playerReputation = -5
    /\ Len(memory[MemNPC].playerInteractions) = 2
    /\ memory[MemNPC].playerInteractions[1].impact = "threatening"
    /\ memory[MemNPC].playerInteractions[2].impact = OtherLabel
    /\ memory[MemNPC].playerInteractions[2].reputationChange = 0
    /\ Len(memory[MemNPC].conversationHistory) = 2

----------------------------------------------------------------------------
(* Claims about the two-phase tools (ToolSpec) *)

\* the step ran collect_nearest_rock or interact_with_nearest_lamp of n and
\* the search found an object
C33_Searched(n) ==
    /\ lastOp'.op = "executeTool" /\ lastOp'.npc = n
    /\ lastOp'.arg \in {"collect_nearest_rock", "interact_with_nearest_lamp"}
    /\ lastOp'.in.nearest # "none"

\* Rock.collect and addRock, or nothing when the rock is gone
C33_Collects(n, r) ==
    /\ lampOn' = lampOn
    /\ IF rockCollected[r]
       THEN rocks' = rocks /\ rockCollected' = rockCollected
       ELSE /\ rocks' = [rocks EXCEPT ![n] = @ + 1]
            /\ rockCollected' = [rockCollected EXCEPT ![r] = TRUE]

C33_Toggles(l) ==
    /\ lampOn' = [lampOn EXCEPT ![l] = ~@]
    /\ rocks' = rocks /\ rockCollected' = rockCollected

----------------------------------------------------------------------------
(* Claims about the rock (RockSpec) *)

\* C35: a rock thrown by an NPC that hits another NPC leaves the memory of
\* the NPC it hits as it was (reputation, interaction log, action log, and
\* the stored record), and NPC.onHit still calls processEvent('hit') with the
\* thrower: an idle agent starts a decision cycle on the hit, a busy one
\* drops it.
C35_NPCRockLeavesMemory ==
    [][\A n \in NPCs :
         lastOp'.op = "onHit" /\ lastOp'.npc = n /\ lastOp'.arg # "player"
         => /\ memory'[n] = memory[n]
            /\ localStorage'[n] = localStorage[n]
            /\ ~isProcessing[n] /\ lastOp'.contextOk
               => /\ isProcessing'[n] /\ pc'[n] = "gemini"
                  /\ event'[n].type = "hit"
                  /\ event'[n].data.thrower.id = lastOp'.arg
                  /\ event'[n].data.thrower.type = "npc"
            /\ ~isProcessing[n] /\ ~lastOp'.contextOk
               => ~isProcessing'[n] /\ pc'[n] = "idle"
            /\ isProcessing[n]
               => isProcessing'[n] /\ pc'[n] = pc[n] /\ event'[n] = event[n]
      ]_vars

\* NPC 1 collected the rock and threw it; it hit NPC 2, whose agent was idle
\* and now waits for the reasoning service with the Hit event, its memory
\* being what it was at the start
C35_Witness ==
    /\ lastOp.op = "onHit" /\ lastOp.npc = 2 /\ lastOp.arg = "1"
    /\ pc[2] = "gemini" /\ event[2].type = "hit"
    /\ event[2].data.thrower = NPCThrower(1)
    /\ memory[2] = NewStores[2].mem
    /\ projectiles = <<>>
    /\ rocks[1] = 0


\* the rocks held by the NPCs and the player together
C36_Held == rocks[1] + rocks[2] + playerRocks

\* the rocks whose collect has returned true
C36_Collected == {r \in Rocks : rockCollected[r]}

\* C36: Rock.collect returns true at most once for a rock, whoever calls it
\* and when: a collected rock stays collected, the inventories together grow
\* by one exactly in a step that collects a rock not collected before, and so
\* the rocks held and in flight never outnumber the rocks collected.
C36_CollectedOnce ==
    [][/\ \A r \in Rocks : rockCollected[r] => rockCollected'[r]
       /\ C36_Held' <= C36_Held + 1
       /\ C36_Held' = C36_Held + 1
          <=> Cardinality(C36_Collected' \ C36_Collected) = 1
       /\ Cardinality(C36_Collected' \ C36_Collected) <= 1
       /\ C36_Held' + Len(projectiles') <= Cardinality(C36_Collected')
      ]_vars

\* both NPCs set out for the rock, the player picked it up before either
\* arrived, and both timers have run: the player holds the only rock
C36_Witness ==
    /\ lastOp.op = "timeout" /\ lastOp.arg = "collect"
    /\ timers = <<>>
    /\ \A n \in NPCs : targetPosition[n] = [beside |-> "rock1"] /\ rocks[n] = 0
    /\ playerRocks = 1
    /\ rockCollected["rock1"]


\* 1 if the step is a collection by n that took a rock, else 0
C37_Took(n) ==
    IF /\ lastOp'.npc = n /\ lastOp'.op \in {"executeTool", "timeout"}
       /\ C36_Collected' # C36_Collected
    THEN 1 ELSE 0

\* 1 if the step put a projectile of n in flight, else 0
C37_Threw(n) ==
    IF /\ Len(projectiles') = Len(projectiles) + 1
       /\ Last(projectiles').id = ToString(n)
    THEN 1 ELSE 0

\* C37: an NPC starts without rocks, and every step changes its count by the
\* rocks it collected in the step less the projectiles it threw in it, never
\* below 0: the count is the rocks collected less the projectiles thrown.
\* removeRock on a count that is too small returns false and changes nothing.
C37_RockConservation ==
    [][\A n \in NPCs :
         /\ rocks'[n] = rocks[n] + C37_Took(n) - C37_Threw(n)
         /\ rocks'[n] >= 0
         /\ \A count \in 1..2 :
               IF rocks'[n] >= count
               THEN /\ RemoveRockOk(World(n)', count)
                    /\ RemoveRock(World(n)', count).rocks = rocks'[n] - count
               ELSE /\ ~RemoveRockOk(World(n)', count)
                    /\ RemoveRock(World(n)', count) = World(n)'
      ]_vars

\* NPC 1 collected the rock and threw it at NPC 2: one collected less one
\* thrown, it holds none, and its rock is in flight
C37_Witness ==
    /\ lastOp.op = "executeTool" /\ lastOp.npc = 1 /\ lastOp.arg = "throw_rock"
    /\ rockCollected["rock1"]
    /\ projectiles = <<NPCThrower(1)>>
    /\ rocks[1] = 0 /\ rocks[2] = 0 /\ playerRocks = 0

====
